---- MODULE Spec2Model ----
(***************************************************************************)
(* A model of the kenji engine core: the ECS World, the Movement and       *)
(* Collision systems, the diffing Renderer, the InputManager and the       *)
(* fixed-timestep GameEngine.  Each component has its own specification    *)
(* (SpecWorld, SpecSystems, SpecRenderer, SpecInput, SpecEngine) over the  *)
(* one set of variables; a specification leaves the other components'      *)
(* variables unchanged.                                                    *)
(***************************************************************************)
EXTENDS Integers, Sequences, FiniteSets, TLC

VARIABLES
  \* ---- World (packages/kenji/src/ecs/world.ts) ----
  nextEntityId,    \* World.nextEntityId
  entities,        \* World.entities: a JS Set, kept in insertion order
  components,      \* World.components: type -> (entity -> component)
  entityPools,     \* World.entityPools: the free-list, a stack
  \* ---- history of the calls made on the World ----
  hCreated,        \* ids createEntity has returned
  hDestroyed,      \* ids whose latest lifecycle call is a destroy
  hExpect,         \* [id -> [type -> the data of the latest addComponent]]
  hCall,           \* the last World/System call, as a record
  hFreed,          \* the ids destroyed and not returned again, oldest first
  hMinted,         \* the ids createEntity has returned since the last clear()
  hLeft,           \* the free ids that held a component when they were destroyed
  \* ---- Systems: what the last updates did ----
  hCollisions,     \* the handleCollision calls of the last Collision.update
  hInit,           \* the components when the systems started
  hTotalDt,        \* the milliseconds Movement.update has simulated
  \* ---- Renderer (engine/renderer.ts) ----
  width,           \* Renderer.width
  height,          \* Renderer.height
  frontBuffer,     \* Renderer.frontBuffer
  backBuffer,      \* Renderer.backBuffer
  previousBuffer,  \* Renderer.previousBuffer
  \* ---- history of the calls made on the Renderer ----
  hOutput,         \* what the last flip() returned: <<>> or the rows
  hRowsChanged,    \* the rows that differed from the shadow at the last flip
  hRowsEmitted,    \* the rows the last flip pushed into its result
  hSeq,            \* the shape of the latest calls (see RenderSeq)
  hDraw,           \* the last step when it was a recorded draw call: its arguments
  hUpdate,         \* the last step when it was RenderSystem.update: the calls it
                   \* made on the Renderer and what it handed to console.log
  \* ---- GameEngine (engine/core.ts) ----
  running,         \* GameEngine.running
  lastTime,        \* GameEngine.lastTime
  accumulator,     \* GameEngine.accumulator
  currentFps,      \* GameEngine.currentFps
  frameCount,      \* GameEngine.frameCount
  fpsUpdateTime,   \* GameEngine.fpsUpdateTime
  now,             \* performance.now()
  pendingLoops,    \* gameLoop callbacks queued by setImmediate and not yet run
  \* ---- history of the engine ----
  hEngCall,        \* the last engine step: "new", "start", "stop", "advance", "gameLoop"
  hEmitted,        \* the notifications the last step emitted, in order
  hPreAcc,         \* the accumulator when the last wake-up began
  hDelta,          \* deltaTime of the last wake-up (after the clamp)
  hAdvances,       \* how often the clock has been advanced
  hWakeUps,        \* how many wake-ups have run the loop body
  hRaw,            \* currentTime - lastTime at the last wake-up (before the clamp)
  hFixedTotal,     \* how many fixedUpdate notifications have been emitted so far
  hClampedTotal,   \* the sum of deltaTime over all wake-ups so far
  hFpsMark,        \* hWakeUps at the last fpsUpdate, or when start() last took effect
  hFpsBase,        \* the time of the last fpsUpdate, or of the start() that took effect
  hDepth,          \* for each notification of the last step: the handlers still running
  hThrown,         \* the event whose handler threw since start() last took effect, or "none"
  \* ---- InputManager (engine/input/inputManager.ts) ----
  keys,            \* InputManager.keys
  keyMappings,     \* InputManager.keyMappings
  isTTY,           \* process.stdin.isTTY
  rawMode,         \* whether stdin is in raw mode
  flowing,         \* whether stdin delivers 'data' (resume / pause)
  subscribed,      \* whether the listeners added with on() are still attached
  timers,          \* the pending setTimeout callbacks, oldest first
  inputNow,        \* the time, in ms
  exited,          \* whether process.exit() has been called
  \* ---- history of the input ----
  hDown,           \* [logical key -> number of keydown events emitted]
  hUp,             \* [logical key -> number of keyup events emitted]
  hQuit,           \* number of quit events emitted
  hLastSignal,     \* [logical key -> time of its last raw signal, or -1]
  hUnbroken,       \* [logical key -> every repeat so far came within the window]
  hSignals,        \* how many raw signals have arrived
  hInCall,         \* the last input step: "new", "data", "timer" or "other"
  hRawIn,          \* the raw string of the last step, when it was a raw signal
  hInEvents,       \* the events the last step emitted, in order
  hHandled,        \* the events of the last step that reached a handler
  hDestroyCalled,  \* whether destroy() has been called
  \* ---- EditorBuffer (packages/tui/src/components/editor/EditorBuffer.ts) ----
  lines,           \* EditorBuffer.lines: each line a sequence of characters
  undoStack,       \* EditorBuffer.undoStack: the lines of each snapshot
  redoStack,       \* EditorBuffer.redoStack: the lines of each snapshot
  \* ---- history of the calls made on the EditorBuffer ----
  hBufCall,        \* the last call: its name and, for undo and redo, its result
  hTrip,           \* "edited" after an edit that changed the content, "undone"
                   \* after the undo() that followed it at once, else "none"
  hA,              \* the content before that edit
  hB,              \* the content after that edit
  hEdits,          \* how many edits have been made
  \* ---- KeybindManager.matchesKeybind ----
  kbEvent,         \* the KeyEvent
  kbKeybind,       \* the Keybind
  hMatches,        \* whether matchesKeybind has been called, and its result
  \* ---- KeybindManager (unnamed/part_010) ----
  config,          \* KeybindManager.config: not loaded (null), or its keybinds
  contexts,        \* KeybindManager.contexts: id -> priority and active
  activeContexts,  \* KeybindManager.activeContexts: a JS Set, in insertion order
  handlers,        \* KeybindManager.handlers: <<context, action>> -> what the
                   \* handler returns
  \* ---- history of the calls made on the KeybindManager ----
  hKbCall,         \* the last call: its name and, for handleKeyEvent, the event
                   \* and the result
  hInvoked         \* the handlers the last handleKeyEvent invoked, in order, each
                   \* as <<context, index of the keybind in the context's list>>

worldVars == <<nextEntityId, entities, components, entityPools>>
worldHist == <<hCreated, hDestroyed, hExpect, hCall, hFreed, hMinted, hLeft>>
sysHist   == <<hCollisions, hInit, hTotalDt>>
rendVars  == <<width, height, frontBuffer, backBuffer, previousBuffer>>
rendHist  == <<hOutput, hRowsChanged, hRowsEmitted, hSeq>>
ecsVars   == <<worldVars, worldHist, sysHist>>
rendAll   == <<rendVars, rendHist, hDraw>>
engVars   == <<running, lastTime, accumulator, currentFps, frameCount,
               fpsUpdateTime, now, pendingLoops>>
engHist   == <<hEngCall, hEmitted, hPreAcc, hDelta, hAdvances, hWakeUps,
               hRaw, hFixedTotal, hClampedTotal>>
engFps    == <<hFpsMark, hFpsBase>>
engAll    == <<engVars, engHist, engFps, hDepth, hThrown>>
inpVars   == <<keys, keyMappings, isTTY, rawMode, flowing, subscribed, timers,
               inputNow, exited>>
inpHist   == <<hDown, hUp, hQuit, hLastSignal, hUnbroken, hSignals>>
inpLast   == <<hInCall, hRawIn, hInEvents, hHandled>>
inpAll    == <<inpVars, inpHist, inpLast, hDestroyCalled>>
bufVars   == <<lines, undoStack, redoStack>>
bufHist   == <<hBufCall, hTrip, hA, hB, hEdits>>
bufAll    == <<bufVars, bufHist>>
matchAll  == <<kbEvent, kbKeybind, hMatches>>
mgrVars   == <<config, contexts, activeContexts, handlers>>
mgrAll    == <<mgrVars, hKbCall, hInvoked>>
kbAll     == <<matchAll, mgrAll>>
tuiAll    == <<bufAll, kbAll>>

\* What each specification leaves alone
exceptEcs  == <<rendAll, engAll, inpAll, tuiAll, hUpdate>>
exceptRend == <<ecsVars, engAll, inpAll, tuiAll, hUpdate>>
exceptEng  == <<ecsVars, rendAll, inpAll, tuiAll, hUpdate>>
exceptInp  == <<ecsVars, rendAll, engAll, tuiAll, hUpdate>>
exceptBuf  == <<ecsVars, rendAll, engAll, inpAll, kbAll, hUpdate>>
exceptKb   == <<ecsVars, rendAll, engAll, inpAll, bufAll, hUpdate>>
exceptRender == <<sysHist, hDraw, engAll, inpAll, tuiAll>>
exceptMatch == <<exceptKb, mgrAll>>
exceptMgr  == <<exceptKb, matchAll>>

\* -------------------------------------------------------------------------
\* Bounds of the model
\* -------------------------------------------------------------------------
MaxEntities == 3
MaxCells == 3
MaxDrawCells == 2
MaxBoxCells == 2
MaxFrameCells == 2
MaxBoxSide == 2
MaxAdvances == 3
MaxWakeUps == 4
MaxSignals == 3
MaxInputSteps == 5
MaxPending == 2

\* -------------------------------------------------------------------------
\* Helpers
\* -------------------------------------------------------------------------
Range(s) == {s[i] : i \in 1..Len(s)}

\* JS Set.add on an insertion-ordered set
SetAdd(s, e) == IF e \in Range(s) THEN s ELSE Append(s, e)

\* JS Set.delete / Map.delete on the key order
SetDelete(s, e) == SelectSeq(s, LAMBDA x : x # e)

\* The value JS yields for a missing map entry
Undefined == [undefined |-> TRUE]

\* -------------------------------------------------------------------------
\* Component kinds (the components module)
\* -------------------------------------------------------------------------
ComponentTypes == {"Position", "Velocity", "Dimensions", "Collider"}

\* Lengths are kept in thousandths of a cell, so that velocity (cells per
\* second) times milliseconds is a whole number.
Cell == 1000

EntityIds == 1..MaxEntities

\* -------------------------------------------------------------------------
\* World
\* -------------------------------------------------------------------------
HasComponent(entity, type) ==
  IF type \in DOMAIN components THEN entity \in DOMAIN components[type] ELSE FALSE

GetComponent(entity, type) ==
  IF type \in DOMAIN components /\ entity \in DOMAIN components[type]
  THEN components[type][entity]
  ELSE Undefined

QuerySome(componentTypes) ==
  SelectSeq(entities, LAMBDA e : \E t \in componentTypes : HasComponent(e, t))

\* query(...componentTypes): the entities, in the Set's order, holding every type
Query(componentTypes) ==
  SelectSeq(entities, LAMBDA e : \A t \in componentTypes : HasComponent(e, t))

\* Map.delete(entity) on one component map
MapDelete(m, entity) == [e \in (DOMAIN m) \ {entity} |-> m[e]]

\* Map.set(entity, component) on one component map
MapSet(m, entity, component) ==
  [e \in (DOMAIN m) \cup {entity} |-> IF e = entity THEN component ELSE m[e]]

EmptyMap == [e \in {} |-> Undefined]

NoExpect == [t \in ComponentTypes |-> Undefined]

\* createEntity() taking the oldest free id (shift) instead of the newest (pop)
CreateEntityFifo ==
  /\ (entityPools # <<>> \/ nextEntityId <= MaxEntities)
  /\ LET entity == IF entityPools # <<>> THEN entityPools[1]
                   ELSE nextEntityId
     IN /\ entityPools' = IF entityPools # <<>> THEN Tail(entityPools)
                          ELSE entityPools
        /\ nextEntityId' = IF entityPools # <<>> THEN nextEntityId
                           ELSE nextEntityId + 1
        /\ entities' = SetAdd(entities, entity)
        /\ hCreated' = hCreated \cup {entity}
        /\ hDestroyed' = hDestroyed \ {entity}
        /\ hCall' = [op |-> "createEntity", entity |-> entity,
                     purged |-> entity \in hLeft]
        /\ hFreed' = SelectSeq(hFreed, LAMBDA x : x # entity)
        /\ hMinted' = hMinted \cup {entity}
        /\ hLeft' = hLeft \ {entity}
  /\ UNCHANGED <<components, hExpect>>

\* createEntity(): const entity = this.entityPools.pop() ?? this.nextEntityId++
CreateEntity ==
  /\ (entityPools # <<>> \/ nextEntityId <= MaxEntities)
  /\ LET entity == IF entityPools # <<>>
                   THEN entityPools[Len(entityPools)]
                   ELSE nextEntityId
     IN /\ entityPools' = IF entityPools # <<>>
                          THEN SubSeq(entityPools, 1, Len(entityPools) - 1)
                          ELSE entityPools
        /\ nextEntityId' = IF entityPools # <<>> THEN nextEntityId
                           ELSE nextEntityId + 1
        /\ entities' = SetAdd(entities, entity)
        /\ hCreated' = hCreated \cup {entity}
        /\ hDestroyed' = hDestroyed \ {entity}
        /\ hCall' = [op |-> "createEntity", entity |-> entity,
                     purged |-> entity \in hLeft]
        /\ hFreed' = SelectSeq(hFreed, LAMBDA x : x # entity)
        /\ hMinted' = hMinted \cup {entity}
        /\ hLeft' = hLeft \ {entity}
  /\ UNCHANGED <<components, hExpect>>

\* What destroyEntity(entity) adds to the history of freed ids
FreedHistory(entity) ==
  /\ hFreed' = IF entity \in hCreated \ hDestroyed
               THEN Append(hFreed, entity) ELSE hFreed
  /\ hLeft' = IF entity \notin hCreated \ hDestroyed THEN hLeft
              ELSE IF \E t \in ComponentTypes : hExpect[entity][t] # Undefined
              THEN hLeft \cup {entity}
              ELSE hLeft \ {entity}
  /\ UNCHANGED hMinted

\* destroyEntity without the test that the entity is live
DestroyEntityUnchecked(entity) ==
  /\ entities' = SetDelete(entities, entity)
  /\ components' = [t \in DOMAIN components |->
                      MapDelete(components[t], entity)]
  /\ entityPools' = Append(entityPools, entity)
  /\ UNCHANGED nextEntityId
  /\ hDestroyed' = hDestroyed \cup {entity}
  /\ hExpect' = [hExpect EXCEPT ![entity] = NoExpect]
  /\ hCall' = [op |-> "destroyEntity", entity |-> entity]
  /\ FreedHistory(entity)
  /\ UNCHANGED hCreated

\* destroyEntity leaving the components of the entity in their maps
DestroyEntityKeepsComponents(entity) ==
  /\ IF entity \notin Range(entities)
     THEN UNCHANGED worldVars
     ELSE /\ entities' = SetDelete(entities, entity)
          /\ entityPools' = Append(entityPools, entity)
          /\ UNCHANGED <<nextEntityId, components>>
  /\ hDestroyed' = hDestroyed \cup {entity}
  /\ hExpect' = [hExpect EXCEPT ![entity] = NoExpect]
  /\ hCall' = [op |-> "destroyEntity", entity |-> entity]
  /\ FreedHistory(entity)
  /\ UNCHANGED hCreated

DestroyEntityKeepsLive(entity) ==
  /\ IF entity \notin Range(entities)
     THEN UNCHANGED worldVars
     ELSE /\ components' = [t \in DOMAIN components |->
                               MapDelete(components[t], entity)]
          /\ entityPools' = Append(entityPools, entity)
          /\ UNCHANGED <<nextEntityId, entities>>
  /\ hDestroyed' = hDestroyed \cup {entity}
  /\ hExpect' = [hExpect EXCEPT ![entity] = NoExpect]
  /\ hCall' = [op |-> "destroyEntity", entity |-> entity]
  /\ FreedHistory(entity)
  /\ UNCHANGED hCreated

DestroyEntity(entity) ==
  /\ IF entity \notin Range(entities)
     THEN UNCHANGED worldVars
     ELSE /\ entities' = SetDelete(entities, entity)
          /\ components' = [t \in DOMAIN components |->
                               MapDelete(components[t], entity)]
          /\ entityPools' = Append(entityPools, entity)
          /\ UNCHANGED nextEntityId
  /\ hDestroyed' = hDestroyed \cup {entity}
  /\ hExpect' = [hExpect EXCEPT ![entity] = NoExpect]
  /\ hCall' = [op |-> "destroyEntity", entity |-> entity]
  /\ FreedHistory(entity)
  /\ UNCHANGED hCreated

\* addComponent without the test that the entity is live
AddComponentUnchecked(entity, type, component) ==
  /\ components' =
       [t \in (DOMAIN components) \cup {type} |->
          IF t = type
          THEN MapSet(IF type \in DOMAIN components
                      THEN components[type] ELSE EmptyMap,
                      entity, component)
          ELSE components[t]]
  /\ hExpect' = IF entity \in hCreated \ hDestroyed
                THEN [hExpect EXCEPT ![entity][type] = component]
                ELSE hExpect
  /\ hCall' = [op |-> "addComponent", entity |-> entity, type |-> type]
  /\ UNCHANGED <<nextEntityId, entities, entityPools, hCreated, hDestroyed,
                 hFreed, hMinted, hLeft>>

AddComponentKeepsOld(entity, type, component) ==
  /\ IF entity \notin Range(entities)
     THEN UNCHANGED components
     ELSE components' =
            IF type \in DOMAIN components /\ entity \in DOMAIN components[type]
            THEN components
            ELSE [t \in (DOMAIN components) \cup {type} |->
                    IF t = type
                    THEN MapSet(IF type \in DOMAIN components
                                THEN components[type] ELSE EmptyMap,
                                entity, component)
                    ELSE components[t]]
  /\ hExpect' = IF entity \in hCreated \ hDestroyed
                THEN [hExpect EXCEPT ![entity][type] = component]
                ELSE hExpect
  /\ hCall' = [op |-> "addComponent", entity |-> entity, type |-> type]
  /\ UNCHANGED <<nextEntityId, entities, entityPools, hCreated, hDestroyed,
                 hFreed, hMinted, hLeft>>

AddComponent(entity, type, component) ==
  /\ IF entity \notin Range(entities)
     THEN UNCHANGED components
     ELSE components' =
            [t \in (DOMAIN components) \cup {type} |->
               IF t = type
               THEN MapSet(IF type \in DOMAIN components
                           THEN components[type] ELSE EmptyMap,
                           entity, component)
               ELSE components[t]]
  /\ hExpect' = IF entity \in hCreated \ hDestroyed
                THEN [hExpect EXCEPT ![entity][type] = component]
                ELSE hExpect
  /\ hCall' = [op |-> "addComponent", entity |-> entity, type |-> type]
  /\ UNCHANGED <<nextEntityId, entities, entityPools, hCreated, hDestroyed,
                 hFreed, hMinted, hLeft>>

RemoveComponent(entity, type) ==
  /\ components' = IF type \in DOMAIN components
                   THEN [components EXCEPT ![type] = MapDelete(@, entity)]
                   ELSE components
  /\ hExpect' = [hExpect EXCEPT ![entity][type] = Undefined]
  /\ hCall' = [op |-> "removeComponent", entity |-> entity, type |-> type]
  /\ UNCHANGED <<nextEntityId, entities, entityPools, hCreated, hDestroyed,
                 hFreed, hMinted, hLeft>>

\* clear() without the reset of nextEntityId
ClearKeepsAllocator ==
  /\ entities' = <<>>
  /\ components' = [t \in {} |-> EmptyMap]
  /\ entityPools' = <<>>
  /\ UNCHANGED nextEntityId
  /\ hDestroyed' = hDestroyed \cup hCreated
  /\ hExpect' = [e \in EntityIds |-> NoExpect]
  /\ hCall' = [op |-> "clear"]
  /\ hFreed' = <<>>
  /\ hMinted' = {}
  /\ hLeft' = {}
  /\ UNCHANGED hCreated

\* clear()
Clear ==
  /\ entities' = <<>>
  /\ components' = [t \in {} |-> EmptyMap]
  /\ entityPools' = <<>>
  /\ nextEntityId' = 1
  /\ hDestroyed' = hDestroyed \cup hCreated
  /\ hExpect' = [e \in EntityIds |-> NoExpect]
  /\ hCall' = [op |-> "clear"]
  /\ hFreed' = <<>>
  /\ hMinted' = {}
  /\ hLeft' = {}
  /\ UNCHANGED hCreated

InitWorldVars ==
  /\ nextEntityId = 1
  /\ entities = <<>>
  /\ components = [t \in {} |-> EmptyMap]
  /\ entityPools = <<>>

InitWorldHist ==
  /\ hCreated = {}
  /\ hDestroyed = {}
  /\ hExpect = [e \in EntityIds |-> NoExpect]
  /\ hCall = [op |-> "new"]
  /\ hFreed = <<>>
  /\ hMinted = {}
  /\ hLeft = {}

InitSysHist ==
  /\ hCollisions = <<>>
  /\ hInit = components
  /\ hTotalDt = 0

\* The component data the World specification attaches
WorldTypes == {"Position", "Velocity"}

WorldData(type) ==
  IF type = "Position"
  THEN {[x |-> 0, y |-> 0], [x |-> 9 * Cell, y |-> 0]}
  ELSE {[vx |-> 20, vy |-> -5]}

NextWorld ==
  \/ CreateEntity /\ UNCHANGED <<sysHist, exceptEcs>>
  \/ \E e \in EntityIds : DestroyEntity(e) /\ UNCHANGED <<sysHist, exceptEcs>>
  \/ \E e \in EntityIds, t \in WorldTypes :
       \E d \in WorldData(t) : AddComponent(e, t, d) /\ UNCHANGED <<sysHist, exceptEcs>>
  \/ \E e \in EntityIds, t \in WorldTypes :
       RemoveComponent(e, t) /\ UNCHANGED <<sysHist, exceptEcs>>
  \/ Clear /\ UNCHANGED <<sysHist, exceptEcs>>

\* -------------------------------------------------------------------------
\* Systems: Movement (world.ts, second part) and Collision
\* -------------------------------------------------------------------------

\* position.x += velocity.vx * (deltaTime / 1000), and the same for y, with
\* the result floored at the grid's origin
MovePositionClamped(position, velocity, deltaTime) ==
  LET nx == position.x + velocity.vx * deltaTime
      ny == position.y + velocity.vy * deltaTime
  IN [x |-> IF nx < 0 THEN 0 ELSE nx, y |-> IF ny < 0 THEN 0 ELSE ny]

\* position.x += velocity.vx * (deltaTime / 1000); likewise y.  Positions are
\* in thousandths of a cell: cells/second * ms is thousandths of a cell.
MovePosition(position, velocity, deltaTime) ==
  [x |-> position.x + velocity.vx * deltaTime,
   y |-> position.y + velocity.vy * deltaTime]

\* MovementSystem.update(world, deltaTime)
MovementUpdate(deltaTime) ==
  LET moved == Range(Query({"Position", "Velocity"}))
  IN /\ components' =
          IF moved = {} THEN components
          ELSE [components EXCEPT !["Position"] =
                  [e \in DOMAIN @ |->
                     IF e \in moved
                        /\ GetComponent(e, "Position") # Undefined
                        /\ GetComponent(e, "Velocity") # Undefined
                     THEN MovePosition(@[e], GetComponent(e, "Velocity"),
                                       deltaTime)
                     ELSE @[e]]]
     /\ hTotalDt' = hTotalDt + deltaTime
     /\ hCall' = [op |-> "movementUpdate", deltaTime |-> deltaTime]
     /\ UNCHANGED <<nextEntityId, entities, entityPools, hCreated, hDestroyed,
                    hExpect, hCollisions, hInit, hFreed, hMinted, hLeft>>

\* CollisionSystem.checkCollision with the far edges closed
CheckCollisionClosed(pos1, dim1, pos2, dim2) ==
  /\ pos1.x <= pos2.x + dim2.width
  /\ pos1.x + dim1.width >= pos2.x
  /\ pos1.y <= pos2.y + dim2.height
  /\ pos1.y + dim1.height >= pos2.y

\* CollisionSystem.checkCollision
CheckCollision(pos1, dim1, pos2, dim2) ==
  /\ pos1.x < pos2.x + dim2.width
  /\ pos1.x + dim1.width > pos2.x
  /\ pos1.y < pos2.y + dim2.height
  /\ pos1.y + dim1.height > pos2.y

\* The guard of both loops: !pos || !dim || !col || !col.active -> continue
CollisionUsable(entity) ==
  /\ GetComponent(entity, "Position") # Undefined
  /\ GetComponent(entity, "Dimensions") # Undefined
  /\ GetComponent(entity, "Collider") # Undefined
  /\ GetComponent(entity, "Collider").active

RECURSIVE CollisionScanJ(_, _, _)
\* The inner loop, for (j = ...; j < entities.length; j++): the
\* handleCollision calls it makes, in order
CollisionScanJ(q, i, j) ==
  IF j > Len(q) THEN <<>>
  ELSE (IF /\ CollisionUsable(q[j])
           /\ CheckCollision(GetComponent(q[i], "Position"),
                             GetComponent(q[i], "Dimensions"),
                             GetComponent(q[j], "Position"),
                             GetComponent(q[j], "Dimensions"))
        THEN << <<q[i], q[j]>> >>
        ELSE <<>>) \o CollisionScanJ(q, i, j + 1)

RECURSIVE CollisionScanIFromFirst(_, _)
\* The outer loop with the inner loop started at the first entity
CollisionScanIFromFirst(q, i) ==
  IF i > Len(q) THEN <<>>
  ELSE (IF CollisionUsable(q[i]) THEN CollisionScanJ(q, i, 1) ELSE <<>>)
       \o CollisionScanIFromFirst(q, i + 1)

RECURSIVE CollisionScanI(_, _)
\* The outer loop, for (i = 0; i < entities.length; i++), inner j = i + 1
CollisionScanI(q, i) ==
  IF i > Len(q) THEN <<>>
  ELSE (IF CollisionUsable(q[i]) THEN CollisionScanJ(q, i, i + 1) ELSE <<>>)
       \o CollisionScanI(q, i + 1)

\* CollisionSystem.update(world); handleCollision itself changes nothing
CollisionUpdate ==
  /\ hCollisions' =
       CollisionScanI(Query({"Position", "Dimensions", "Collider"}), 1)
  /\ hCall' = [op |-> "collisionUpdate"]
  /\ UNCHANGED <<worldVars, hCreated, hDestroyed, hExpect, hInit, hTotalDt,
                 hFreed, hMinted, hLeft>>

\* The milliseconds Movement.update is called with, and how many of them the
\* systems specification simulates
MovementSteps == {250, 500, 1000}
MaxTotalDt == 1000

\* The entities the systems specification starts from: <<Position, Velocity,
\* Dimensions, Collider>>, Undefined for a component the entity lacks
Box10 == [width |-> 10 * Cell, height |-> 10 * Cell]
Moving == [vx |-> 20, vy |-> -5]
Active == [type |-> "AABB", active |-> TRUE]
Inactive == [type |-> "AABB", active |-> FALSE]
At(cx, cy) == [x |-> cx * Cell, y |-> cy * Cell]

EntityTemplates ==
  { <<At(0, 0), Moving, Box10, Active>>,
    <<At(10, 0), Undefined, Box10, Active>>,
    <<At(9, 0), Undefined, Box10, Active>>,
    <<At(0, 10), Undefined, Box10, Active>>,
    <<At(0, 9), Moving, Box10, Active>>,
    <<At(0, 0), Undefined, Box10, Inactive>>,
    <<At(0, 0), Undefined, Box10, Undefined>>,
    <<At(9, 0), Moving, Undefined, Active>>,
    <<Undefined, Moving, Box10, Active>>,
    <<At(10, 0), Undefined, Undefined, Undefined>> }

TypeAt(k) ==
  CASE k = 1 -> "Position" [] k = 2 -> "Velocity"
    [] k = 3 -> "Dimensions" [] OTHER -> "Collider"

IndexOf(type) == CHOOSE k \in 1..4 : TypeAt(k) = type

\* The World after createEntity for 1..n and addComponent of each template
WorldOf(tpls) ==
  LET n == Len(tpls)
      used == {t \in ComponentTypes :
                 \E e \in 1..n : tpls[e][IndexOf(t)] # Undefined}
  IN [t \in used |->
        [e \in {e \in 1..n : tpls[e][IndexOf(t)] # Undefined} |->
           tpls[e][IndexOf(t)]]]

InitSystemsEcs ==
  \E n \in 1..MaxEntities :
    \E tpls \in [1..n -> EntityTemplates] :
      /\ nextEntityId = n + 1
      /\ entities = [e \in 1..n |-> e]
      /\ components = WorldOf(tpls)
      /\ entityPools = <<>>
      /\ hCreated = 1..n
      /\ hDestroyed = {}
      /\ hExpect = [e \in EntityIds |->
                      [t \in ComponentTypes |->
                         IF e <= n THEN tpls[e][IndexOf(t)] ELSE Undefined]]
      /\ hCall = [op |-> "new"]
      /\ hFreed = <<>>
      /\ hMinted = 1..n
      /\ hLeft = {}
      /\ hCollisions = <<>>
      /\ hInit = WorldOf(tpls)
      /\ hTotalDt = 0

NextSystems ==
  \/ \E dt \in MovementSteps :
       hTotalDt + dt <= MaxTotalDt /\ MovementUpdate(dt) /\ UNCHANGED exceptEcs
  \/ CollisionUpdate /\ UNCHANGED exceptEcs


\* -------------------------------------------------------------------------
\* Renderer
\* -------------------------------------------------------------------------
Rows == 0..(height - 1)
Cols == 0..(width - 1)

\* createBuffer(): every cell ' ' in 'white'
CreateBuffer(w, h) ==
  [chars  |-> [y \in 0..(h - 1) |-> [x \in 0..(w - 1) |-> " "]],
   colors |-> [y \in 0..(h - 1) |-> [x \in 0..(w - 1) |-> "white"]]]

\* hDraw when the last step was not a drawChar call
NoDraw == [op |-> "none"]

\* hUpdate when the last step was not RenderSystem.update
NoUpdate == [op |-> "none"]

\* The coordinate truncated toward zero (as x | 0 would)
FloorTowardZero(halves) ==
  IF halves < 0 THEN 0 - ((0 - halves) \div 2) ELSE halves \div 2

\* Math.floor of a coordinate given in halves of a cell
Floor(halves) == halves \div 2

\* drawChar(x, y, char, color) applied to buffer b (x and y in halves)
DrawCharIn(b, x, y, char, color) ==
  LET ix == Floor(x)
      iy == Floor(y)
  IN IF ix < 0 \/ ix >= width \/ iy < 0 \/ iy >= height THEN b
     ELSE [chars  |-> [b.chars EXCEPT ![iy][ix] = char],
           colors |-> [b.colors EXCEPT ![iy][ix] = color]]

RECURSIVE DrawStringIn(_, _, _, _, _, _)
\* drawString: for (i = 0; i < str.length; i++) drawChar(x + i, y, str[i], color),
\* from index i (0-based) on
DrawStringIn(b, x, y, str, color, i) ==
  IF i >= Len(str) THEN b
  ELSE DrawStringIn(DrawCharIn(b, x + 2 * i, y, str[i + 1], color),
                    x, y, str, color, i + 1)

\* The shape of the latest calls: "clear", "clear-draw" (clear then draws),
\* "other" (nothing yet, or draws with no clear before them),
\* "cycle" (clear, draws, flip), "cycle-flip" (and a second flip at once),
\* "flip" (any other flip), "flip-flip" (any other flip right after a flip)
RenderSeq(call) ==
  CASE call = "clear" -> "clear"
    [] call = "draw" -> IF hSeq \in {"clear", "clear-draw"} THEN "clear-draw"
                        ELSE "other"
    [] OTHER -> CASE hSeq = "clear-draw" -> "cycle"
                  [] hSeq = "cycle" -> "cycle-flip"
                  [] hSeq \in {"flip", "cycle-flip", "flip-flip"} -> "flip-flip"
                  [] OTHER -> "flip"

RendererClear ==
  /\ backBuffer' = CreateBuffer(width, height)
  /\ hSeq' = RenderSeq("clear")
  /\ UNCHANGED <<width, height, frontBuffer, previousBuffer, hOutput,
                 hRowsChanged, hRowsEmitted>>

DrawChar(x, y, char, color) ==
  /\ backBuffer' = DrawCharIn(backBuffer, x, y, char, color)
  /\ hSeq' = RenderSeq("draw")
  /\ UNCHANGED <<width, height, frontBuffer, previousBuffer, hOutput,
                 hRowsChanged, hRowsEmitted>>

DrawString(x, y, str, color) ==
  /\ backBuffer' = DrawStringIn(backBuffer, x, y, str, color, 0)
  /\ hSeq' = RenderSeq("draw")
  /\ UNCHANGED <<width, height, frontBuffer, previousBuffer, hOutput,
                 hRowsChanged, hRowsEmitted>>

\* The glyphs of drawBox
BoxGlyph ==
  [topLeft |-> "tl", topRight |-> "tr", bottomLeft |-> "bl",
   bottomRight |-> "br", horizontal |-> "hz", vertical |-> "vt", fill |-> "fl"]

\* max(n, 0): how often a for loop from 0 (or 1) up to below n (or n - 1) runs
LoopCount(n) == IF n > 0 THEN n ELSE 0

\* The drawChar calls of drawBox(x, y, w, h, filled), in the order they are
\* made, each as <<x, y, glyph>>; x and y in halves of a cell, w and h in cells
BoxCalls(x, y, w, h, filled) ==
  IF filled
  THEN [k \in 1..(LoopCount(w) * LoopCount(h)) |->
          <<x + 2 * ((k - 1) % w), y + 2 * ((k - 1) \div w), BoxGlyph.fill>>]
  ELSE << <<x, y, BoxGlyph.topLeft>>,
          <<x + 2 * (w - 1), y, BoxGlyph.topRight>>,
          <<x, y + 2 * (h - 1), BoxGlyph.bottomLeft>>,
          <<x + 2 * (w - 1), y + 2 * (h - 1), BoxGlyph.bottomRight>> >>
       \o [k \in 1..(2 * LoopCount(w - 2)) |->
             <<x + 2 * ((k + 1) \div 2),
               IF k % 2 = 1 THEN y ELSE y + 2 * (h - 1),
               BoxGlyph.horizontal>>]
       \o [k \in 1..(2 * LoopCount(h - 2)) |->
             <<IF k % 2 = 1 THEN x ELSE x + 2 * (w - 1),
               y + 2 * ((k + 1) \div 2),
               BoxGlyph.vertical>>]

RECURSIVE DrawCallsIn(_, _)
\* The drawChar calls `calls` made in order on buffer b, in the default colour
DrawCallsIn(b, calls) ==
  IF calls = <<>> THEN b
  ELSE DrawCallsIn(DrawCharIn(b, calls[1][1], calls[1][2], calls[1][3], "white"),
                   Tail(calls))

\* drawBox(x, y, width, height, filled)
DrawBox(x, y, w, h, filled) ==
  /\ backBuffer' = DrawCallsIn(backBuffer, BoxCalls(x, y, w, h, filled))
  /\ hSeq' = RenderSeq("draw")
  /\ UNCHANGED <<width, height, frontBuffer, previousBuffer, hOutput,
                 hRowsChanged, hRowsEmitted>>

\* row.join(''): the characters of the row's cells, a cell holding the empty
\* string adding none
RowText(b, y) ==
  SelectSeq([i \in 1..width |-> b.chars[y][i - 1]], LAMBDA c : c # "")

\* The rows flip() pushes, top to bottom
FrameText(b) == [i \in 1..height |-> RowText(b, i - 1)]

\* output.join('\n'): a string, written as the sequence of its lines; the
\* empty string '' is <<>>, and so is the join of one empty line
JoinLines(rows) == IF rows = << <<>> >> THEN <<>> ELSE rows

\* The comparison looking at the characters only
CellDiffersCharOnly(a, b, x, y) == a.chars[y][x] # b.chars[y][x]

\* backBuffer[y][x].char !== previousBuffer[y][x].char || ... .color !== ... .color
CellDiffers(a, b, x, y) ==
  a.chars[y][x] # b.chars[y][x] \/ a.colors[y][x] # b.colors[y][x]

\* flip() copying the back buffer to the shadow buffer only
FlipKeepsFront ==
  LET hasChanges == \E y \in Rows, x \in Cols :
                      CellDiffers(backBuffer, previousBuffer, x, y)
  IN /\ previousBuffer' = backBuffer
     /\ hOutput' = IF hasChanges THEN JoinLines(FrameText(backBuffer)) ELSE <<>>
     /\ hRowsEmitted' = IF hasChanges THEN Rows ELSE {}
     /\ hRowsChanged' = {y \in Rows : \E x \in Cols :
                           CellDiffers(backBuffer, previousBuffer, x, y)}
     /\ hSeq' = RenderSeq("flip")
     /\ UNCHANGED <<width, height, backBuffer, frontBuffer>>

\* flip() leaving the shadow buffer as it was
FlipKeepsShadow ==
  LET hasChanges == \E y \in Rows, x \in Cols :
                      CellDiffers(backBuffer, previousBuffer, x, y)
  IN /\ frontBuffer' = backBuffer
     /\ hOutput' = IF hasChanges THEN JoinLines(FrameText(backBuffer)) ELSE <<>>
     /\ hRowsEmitted' = IF hasChanges THEN Rows ELSE {}
     /\ hRowsChanged' = {y \in Rows : \E x \in Cols :
                           CellDiffers(backBuffer, previousBuffer, x, y)}
     /\ hSeq' = RenderSeq("flip")
     /\ UNCHANGED <<width, height, backBuffer, previousBuffer>>

\* flip(): every cell of the back buffer is compared with the shadow
\* (previous) buffer and copied to the front and shadow buffers; '' when no
\* cell differed, else console.clear() and the rows of the front buffer
Flip ==
  LET hasChanges == \E y \in Rows, x \in Cols :
                      CellDiffers(backBuffer, previousBuffer, x, y)
  IN /\ frontBuffer' = backBuffer
     /\ previousBuffer' = backBuffer
     /\ hOutput' = IF hasChanges THEN JoinLines(FrameText(frontBuffer'))
                   ELSE <<>>
     /\ hRowsEmitted' = IF hasChanges THEN Rows ELSE {}
     /\ hRowsChanged' = {y \in Rows : \E x \in Cols :
                           CellDiffers(backBuffer, previousBuffer, x, y)}
     /\ hSeq' = RenderSeq("flip")
     /\ UNCHANGED <<width, height, backBuffer>>

\* new Renderer(w, h), for the grids of at most maxCells cells
NewRenderer(maxCells) ==
  /\ \E w \in 1..maxCells, h \in 1..maxCells :
       /\ w * h <= maxCells
       /\ width = w
       /\ height = h
       /\ frontBuffer = CreateBuffer(w, h)
       /\ backBuffer = CreateBuffer(w, h)
       /\ previousBuffer = CreateBuffer(w, h)
  /\ hOutput = <<>>
  /\ hRowsChanged = {}
  /\ hRowsEmitted = {}
  /\ hSeq = "other"
  /\ hDraw = NoDraw
  /\ hUpdate = NoUpdate

InitRenderer == NewRenderer(MaxCells)

\* The arguments the Renderer specification draws with: coordinates in halves
\* of a cell: -0.5, 0, the middle of every cell, and the far edge
DrawXs == {-1, 0, 2 * width} \cup {2 * c + 1 : c \in Cols}
DrawYs == {-1, 0, 2 * height} \cup {2 * c + 1 : c \in Rows}
DrawColors == {"white", "red"}
DrawStrings == {<<"a", "a">>}

NextRenderer ==
  \/ RendererClear /\ UNCHANGED <<hDraw, exceptRend>>
  \/ \E x \in DrawXs, y \in DrawYs, color \in DrawColors :
       DrawChar(x, y, "a", color) /\ UNCHANGED <<hDraw, exceptRend>>
  \/ \E x \in DrawXs, y \in DrawYs, str \in DrawStrings :
       DrawString(x, y, str, "white") /\ UNCHANGED <<hDraw, exceptRend>>
  \/ Flip /\ UNCHANGED <<hDraw, exceptRend>>

\* The corners and sizes drawBox is called with: a corner left of, on and
\* right of the first column, every size from 0 to MaxBoxSide
BoxXs == {-2, 0, 2}
BoxYs == {0, 2}
BoxSides == 0..MaxBoxSide

\* clear() and drawBox, each drawBox recorded with its arguments
NextBox ==
  \/ RendererClear /\ hDraw' = NoDraw /\ UNCHANGED exceptRend
  \/ \E x \in BoxXs, y \in BoxYs, w \in BoxSides, h \in BoxSides,
        filled \in BOOLEAN :
       /\ DrawBox(x, y, w, h, filled)
       /\ hDraw' = [op |-> "drawBox", x |-> x, y |-> y, w |-> w, h |-> h,
                    filled |-> filled]
       /\ UNCHANGED exceptRend

\* Every drawing call of the Renderer: clear, drawChar, drawString, drawBox
\* (one cell, filled or not) and flip
NextFrames ==
  \/ RendererClear /\ UNCHANGED <<hDraw, exceptRend>>
  \/ \E x \in BoxXs, y \in BoxYs :
       DrawChar(x, y, "a", "white") /\ UNCHANGED <<hDraw, exceptRend>>
  \/ \E x \in BoxXs, str \in DrawStrings :
       DrawString(x, 0, str, "white") /\ UNCHANGED <<hDraw, exceptRend>>
  \/ \E x \in BoxXs, y \in BoxYs, filled \in BOOLEAN :
       DrawBox(x, y, 1, 1, filled) /\ UNCHANGED <<hDraw, exceptRend>>
  \/ Flip /\ UNCHANGED <<hDraw, exceptRend>>

\* The characters and colours drawChar is called with below: a red letter
\* and the empty string
DrawGlyphs == {<<"a", "red">>, <<"", "white">>}

\* The calls of a program that only draws single characters and flips, each
\* drawChar recorded with its arguments
NextDraw ==
  \/ \E x \in DrawXs, y \in DrawYs, glyph \in DrawGlyphs :
       /\ DrawChar(x, y, glyph[1], glyph[2])
       /\ hDraw' = [op |-> "drawChar", x |-> x, y |-> y, char |-> glyph[1],
                    color |-> glyph[2]]
       /\ UNCHANGED exceptRend
  \/ Flip /\ hDraw' = NoDraw /\ UNCHANGED exceptRend

\* A Renderer that is constructed and never used (1 x 1)
InitRendererIdle ==
  /\ width = 1
  /\ height = 1
  /\ frontBuffer = CreateBuffer(1, 1)
  /\ backBuffer = CreateBuffer(1, 1)
  /\ previousBuffer = CreateBuffer(1, 1)
  /\ hOutput = <<>>
  /\ hRowsChanged = {}
  /\ hRowsEmitted = {}
  /\ hSeq = "other"
  /\ hDraw = NoDraw
  /\ hUpdate = NoUpdate


\* -------------------------------------------------------------------------
\* GameEngine
\* -------------------------------------------------------------------------

\* Times are whole numbers of ticks, a tick being a ten-thousandth of a
\* millisecond: the quotient 1000 / fps is rounded to the nearest tick
\* (16.6667 ms at 60 fps, above 50/3 as the double 1000/60 is).
TicksPerMs == 10 ^ 4

Ms(n) == n * TicksPerMs

\* config.fps ?? 60
Fps == 60

\* this.frameTime = 1000 / this.config.fps
FrameTime == (Ms(1000) + Fps \div 2) \div Fps

\* Math.min(a, b)
Min(a, b) == IF a < b THEN a ELSE b

\* The elapsed time without the clamp
DeltaTimeUnclamped(currentTime, last) == currentTime - last

\* const deltaTime = Math.min(currentTime - this.lastTime, 100)
DeltaTime(currentTime, last) == Min(currentTime - last, Ms(100))

\* The fixed-step loop as an `if`: one step at most
FixedLoopOnce(acc, n) ==
  IF acc >= FrameTime THEN [steps |-> n + 1, acc |-> acc - FrameTime]
  ELSE [steps |-> n, acc |-> acc]

RECURSIVE FixedLoopStrict(_, _)
\* The fixed-step loop with the test accumulator > frameTime
FixedLoopStrict(acc, n) ==
  IF acc > FrameTime THEN FixedLoopStrict(acc - FrameTime, n + 1)
  ELSE [steps |-> n, acc |-> acc]

RECURSIVE FixedLoop(_, _)
\* while (accumulator >= frameTime) { emit('fixedUpdate'); accumulator -= frameTime }
\* from accumulator acc with n steps made: the steps made and what is left
FixedLoop(acc, n) ==
  IF acc >= FrameTime THEN FixedLoop(acc - FrameTime, n + 1)
  ELSE [steps |-> n, acc |-> acc]

\* n times the notification name
Repeat(name, n) == [i \in 1..n |-> name]

\* The notifications of one wake-up with render emitted before update
NotificationsRenderFirst(steps, fpsDue) ==
  Repeat("fixedUpdate", steps)
    \o <<"render", "update">>
    \o (IF fpsDue THEN <<"fpsUpdate">> ELSE <<>>)

\* The notifications of one wake-up with `steps` fixed steps, in the order
\* gameLoop and updateFps emit them
Notifications(steps, fpsDue) ==
  Repeat("fixedUpdate", steps)
    \o <<"update", "render">>
    \o (IF fpsDue THEN <<"fpsUpdate">> ELSE <<>>)

RECURSIVE WithStop(_, _)
\* emit() runs the handlers synchronously: a handler of the event stopOn calls
\* stop() the first time it is invoked, which emits 'stop' on the spot
WithStop(notes, stopOn) ==
  IF notes = <<>> THEN <<>>
  ELSE IF Head(notes) = stopOn THEN <<Head(notes), "stop">> \o Tail(notes)
  ELSE <<Head(notes)>> \o WithStop(Tail(notes), stopOn)

\* The body of gameLoop once running is known to be true, at wall-clock time
\* currentTime, with this.lastTime = last and this.fpsUpdateTime = fpsLast,
\* after the notifications `before`; one more gameLoop is queued on top of
\* `queued`; a handler of the event stopOn calls stop()
GameLoopBody(currentTime, last, fpsLast, before, queued, stopOn) ==
  LET deltaTime == DeltaTime(currentTime, last)
      loop == FixedLoop(accumulator + deltaTime, 0)
      fpsDue == currentTime - fpsLast >= Ms(1000)
      notes == Notifications(loop.steps, fpsDue)
  IN /\ running' = (stopOn \notin Range(notes))
     /\ lastTime' = currentTime
     /\ accumulator' = loop.acc
     /\ frameCount' = IF fpsDue THEN 0 ELSE frameCount + 1
     /\ currentFps' = IF fpsDue THEN frameCount + 1 ELSE currentFps
     /\ fpsUpdateTime' = IF fpsDue THEN currentTime ELSE fpsLast
     /\ pendingLoops' = queued + 1
     /\ hEmitted' = before \o WithStop(notes, stopOn)
     /\ hPreAcc' = accumulator
     /\ hDelta' = deltaTime
     /\ hRaw' = currentTime - last
     /\ hFixedTotal' = hFixedTotal + loop.steps
     /\ hClampedTotal' = hClampedTotal + deltaTime
     /\ hWakeUps' = hWakeUps + 1

\* The events whose handler may call stop() during a wake-up
StopOn == {"none", "fixedUpdate", "update", "render", "fpsUpdate"}

\* start() without the test of this.running
StartAlways(stopOn) ==
  /\ pendingLoops < MaxPending /\ hWakeUps < MaxWakeUps
  /\ stopOn # "start"
  /\ hEngCall' = "start"
  /\ GameLoopBody(now, now, now, <<"start">>, pendingLoops, stopOn)
  /\ UNCHANGED <<now, hAdvances>>

\* start(): nothing when running; else lastTime and fpsUpdateTime are set to
\* the clock, 'start' is emitted and gameLoop runs at once (within the same
\* tick of the clock); when a handler of 'start' calls stop(), gameLoop
\* returns at its first line
Start(stopOn) ==
  /\ running \/ (pendingLoops < MaxPending /\ hWakeUps < MaxWakeUps)
  /\ hEngCall' = "start"
  /\ IF running
     THEN /\ stopOn = "none"
          /\ hEmitted' = <<>>
          /\ UNCHANGED <<engVars, hPreAcc, hDelta, hWakeUps, hRaw, hFixedTotal,
                         hClampedTotal>>
     ELSE IF stopOn = "start"
     THEN /\ running' = FALSE
          /\ lastTime' = now
          /\ fpsUpdateTime' = now
          /\ hEmitted' = <<"start", "stop">>
          /\ UNCHANGED <<accumulator, currentFps, frameCount, pendingLoops,
                         hPreAcc, hDelta, hWakeUps, hRaw, hFixedTotal,
                         hClampedTotal>>
     ELSE GameLoopBody(now, now, now, <<"start">>, pendingLoops, stopOn)
  /\ UNCHANGED <<now, hAdvances>>

\* stop(), called from outside any handler of the engine
Stop ==
  /\ running' = FALSE
  /\ hEmitted' = <<"stop">>
  /\ hEngCall' = "stop"
  /\ UNCHANGED <<lastTime, accumulator, currentFps, frameCount, fpsUpdateTime,
                 now, pendingLoops, hPreAcc, hDelta, hAdvances, hWakeUps,
                 hRaw, hFixedTotal, hClampedTotal>>

\* gameLoop without the test of this.running
GameLoopIgnoresStop(stopOn) ==
  /\ pendingLoops > 0
  /\ hWakeUps < MaxWakeUps
  /\ hEngCall' = "gameLoop"
  /\ GameLoopBody(now, lastTime, fpsUpdateTime, <<>>, pendingLoops - 1, stopOn)
  /\ UNCHANGED <<now, hAdvances>>

\* A gameLoop callback queued by setImmediate runs
GameLoop(stopOn) ==
  /\ pendingLoops > 0
  /\ running => hWakeUps < MaxWakeUps
  /\ hEngCall' = "gameLoop"
  /\ IF ~running
     THEN /\ stopOn = "none"
          /\ pendingLoops' = pendingLoops - 1
          /\ hEmitted' = <<>>
          /\ UNCHANGED <<running, lastTime, accumulator, currentFps, frameCount,
                         fpsUpdateTime, hPreAcc, hDelta, hWakeUps, hRaw,
                         hFixedTotal, hClampedTotal>>
     ELSE GameLoopBody(now, lastTime, fpsUpdateTime, <<>>, pendingLoops - 1,
                       stopOn)
  /\ UNCHANGED <<now, hAdvances>>

\* The events whose handler may call stop() and then start() during a wake-up
RestartOn == {"fixedUpdate", "update", "render"}

\* The notifications of the gameLoop that start() runs when a handler calls
\* stop() and start(): 'stop' and 'start', then a wake-up with deltaTime 0
\* (lastTime has just been set to the clock) making `steps` fixed steps, and
\* no fpsUpdate (fpsUpdateTime has just been set to the clock)
RestartNotes(steps) ==
  <<"stop", "start">> \o Notifications(steps, FALSE)

\* A gameLoop callback runs while the engine is running, and the handler of
\* the event restartOn calls stop() and start() the first time it is invoked:
\* start() emits 'start' and runs gameLoop before the handler returns.  A
\* handler of fixedUpdate is invoked before `accumulator -= frameTime`: the
\* inner gameLoop makes every fixed step that is due, and the outer loop
\* subtracts one more frame when the handler has returned.  Both gameLoops
\* call updateFps (after the inner start() neither finds a second elapsed)
\* and setImmediate.
Restart(restartOn) ==
  LET deltaTime == DeltaTime(now, lastTime)
      loop == FixedLoop(accumulator + deltaTime, 0)
      inner == RestartNotes(IF restartOn = "fixedUpdate" THEN loop.steps ELSE 0)
  IN /\ running
     /\ pendingLoops > 0 /\ pendingLoops < MaxPending
     /\ hWakeUps + 2 <= MaxWakeUps
     /\ restartOn = "fixedUpdate" => loop.steps >= 1
     /\ hEngCall' = "gameLoop"
     /\ hEmitted' =
          CASE restartOn = "fixedUpdate" ->
                 <<"fixedUpdate">> \o inner \o <<"update", "render">>
            [] restartOn = "update" ->
                 Repeat("fixedUpdate", loop.steps) \o <<"update">> \o inner
                   \o <<"render">>
            [] OTHER ->
                 Repeat("fixedUpdate", loop.steps) \o <<"update", "render">>
                   \o inner
     /\ hDepth' =
          LET first == CASE restartOn = "fixedUpdate" -> 1
                         [] restartOn = "update" -> loop.steps + 1
                         [] OTHER -> loop.steps + 2
          IN [i \in 1..Len(hEmitted') |->
                IF i > first /\ i <= first + Len(inner) THEN 1 ELSE 0]
     /\ running' = TRUE
     /\ lastTime' = now
     /\ fpsUpdateTime' = now
     /\ accumulator' = IF restartOn = "fixedUpdate" THEN loop.acc - FrameTime
                       ELSE loop.acc
     /\ frameCount' = frameCount + 2
     /\ pendingLoops' = pendingLoops + 1
     /\ hPreAcc' = accumulator
     /\ hDelta' = deltaTime
     /\ hRaw' = now - lastTime
     /\ hFixedTotal' = hFixedTotal + loop.steps
                         + (IF restartOn = "fixedUpdate" THEN 1 ELSE 0)
     /\ hClampedTotal' = hClampedTotal + deltaTime
     /\ hWakeUps' = hWakeUps + 2
     /\ UNCHANGED <<currentFps, now, hAdvances>>

\* The events whose handler may throw during a wake-up
ThrowOn == {"fixedUpdate", "update", "render"}

\* The body of gameLoop when the handler of the event throwOn throws the first
\* time it is invoked: emit() lets the exception through, so gameLoop ends
\* there: a throw from a fixedUpdate handler leaves the accumulator before
\* its decrement, and updateFps and setImmediate are never reached; `queued`
\* callbacks stay queued
ThrowingBody(currentTime, last, fpsLast, before, queued, throwOn) ==
  LET deltaTime == DeltaTime(currentTime, last)
      loop == FixedLoop(accumulator + deltaTime, 0)
  IN /\ throwOn = "fixedUpdate" => loop.steps >= 1
     /\ hEngCall' = "throw"
     /\ hEmitted' =
          before \o
          (CASE throwOn = "fixedUpdate" -> <<"fixedUpdate">>
             [] throwOn = "update" ->
                  Repeat("fixedUpdate", loop.steps) \o <<"update">>
             [] OTHER ->
                  Repeat("fixedUpdate", loop.steps) \o <<"update", "render">>)
     /\ running' = TRUE
     /\ lastTime' = currentTime
     /\ fpsUpdateTime' = fpsLast
     /\ accumulator' = IF throwOn = "fixedUpdate" THEN accumulator + deltaTime
                       ELSE loop.acc
     /\ hPreAcc' = accumulator
     /\ hDelta' = deltaTime
     /\ hRaw' = currentTime - last
     /\ hFixedTotal' = hFixedTotal
                         + (IF throwOn = "fixedUpdate" THEN 1 ELSE loop.steps)
     /\ hClampedTotal' = hClampedTotal + deltaTime
     /\ hWakeUps' = hWakeUps + 1
     /\ pendingLoops' = queued
     /\ UNCHANGED <<currentFps, frameCount, now, hAdvances>>

\* start() on a stopped engine, with a handler that throws during the wake-up
\* start() runs: the exception leaves start(), running stays true
StartThrows(throwOn) ==
  /\ ~running
  /\ hWakeUps < MaxWakeUps
  /\ ThrowingBody(now, now, now, <<"start">>, pendingLoops, throwOn)

\* A gameLoop callback runs while the engine is running and a handler throws:
\* the callback is used up and none is queued
GameLoopThrows(throwOn) ==
  /\ running
  /\ pendingLoops > 0
  /\ hWakeUps < MaxWakeUps
  /\ ThrowingBody(now, lastTime, fpsUpdateTime, <<>>, pendingLoops - 1, throwOn)

\* Wall-clock time passes between two turns of the event loop
Advance(elapsed) ==
  /\ hAdvances < MaxAdvances
  /\ now' = now + elapsed
  /\ hAdvances' = hAdvances + 1
  /\ hEngCall' = "advance"
  /\ hEmitted' = <<>>
  /\ UNCHANGED <<running, lastTime, accumulator, currentFps, frameCount,
                 fpsUpdateTime, pendingLoops, hPreAcc, hDelta, hWakeUps,
                 hRaw, hFixedTotal, hClampedTotal>>

\* new GameEngine()
InitEngine ==
  /\ running = FALSE
  /\ lastTime = 0
  /\ accumulator = 0
  /\ currentFps = 0
  /\ frameCount = 0
  /\ fpsUpdateTime = 0
  /\ now \in {0, Ms(7)}
  /\ pendingLoops = 0
  /\ hEngCall = "new"
  /\ hEmitted = <<>>
  /\ hPreAcc = 0
  /\ hDelta = 0
  /\ hAdvances = 0
  /\ hWakeUps = 0
  /\ hRaw = 0
  /\ hFixedTotal = 0
  /\ hClampedTotal = 0
  /\ hFpsMark = 0
  /\ hFpsBase = 0
  /\ hDepth = <<>>
  /\ hThrown = "none"

InitEngineIdle == InitEngine /\ now = 0

\* The wall-clock time that passes between turns: one frame, 50 ms, and a
\* stall of 600 ms
Elapsed == {FrameTime, Ms(50), Ms(600)}

\* The last step was a start() that took effect
Started == hEngCall = "start" /\ hEmitted # <<>>

\* What the step has shown of the fps counter: the time and the number of
\* wake-ups at the latest fpsUpdate notification or start() that took effect
FpsHistory ==
  /\ hFpsMark' = IF "fpsUpdate" \in Range(hEmitted') THEN hWakeUps'
                 ELSE IF Started' THEN hWakeUps ELSE hFpsMark
  /\ hFpsBase' = IF "fpsUpdate" \in Range(hEmitted') \/ Started' THEN now
                 ELSE hFpsBase

\* What the engine specification leaves alone
exceptEngine == <<hDepth, hThrown, exceptEng>>

NextEngine ==
  \/ \E stopOn \in StopOn \cup {"start"} :
       Start(stopOn) /\ FpsHistory /\ UNCHANGED exceptEngine
  \/ Stop /\ FpsHistory /\ UNCHANGED exceptEngine
  \/ \E stopOn \in StopOn :
       GameLoop(stopOn) /\ FpsHistory /\ UNCHANGED exceptEngine
  \/ \E d \in Elapsed : Advance(d) /\ FpsHistory /\ UNCHANGED exceptEngine

\* The handlers that had not returned when each notification of a step without
\* a restart was emitted: 'stop' comes from a handler calling stop() during a
\* wake-up (or during 'start'), everything else from the engine itself
HandlerDepths(notes) ==
  [i \in 1..Len(notes) |-> IF notes[i] = "stop" THEN 1 ELSE 0]

\* The engine with handlers that may also restart it
NextReentry ==
  \/ \E stopOn \in StopOn \cup {"start"} :
       /\ Start(stopOn)
       /\ hDepth' = HandlerDepths(hEmitted')
       /\ UNCHANGED <<engFps, hThrown, exceptEng>>
  \/ Stop /\ hDepth' = <<0>> /\ UNCHANGED <<engFps, hThrown, exceptEng>>
  \/ \E stopOn \in StopOn :
       /\ GameLoop(stopOn)
       /\ hDepth' = HandlerDepths(hEmitted')
       /\ UNCHANGED <<engFps, hThrown, exceptEng>>
  \/ \E restartOn \in RestartOn :
       Restart(restartOn) /\ UNCHANGED <<engFps, hThrown, exceptEng>>
  \/ \E d \in Elapsed :
       Advance(d) /\ hDepth' = <<>> /\ UNCHANGED <<engFps, hThrown, exceptEng>>

\* The engine with handlers that may also throw; the host survives the
\* exception (it catches it around start(), or handles uncaughtException)
NextFailure ==
  \/ \E stopOn \in StopOn \cup {"start"} :
       /\ Start(stopOn)
       /\ hThrown' = IF Started' THEN "none" ELSE hThrown
       /\ UNCHANGED <<engFps, hDepth, exceptEng>>
  \/ Stop /\ UNCHANGED <<engFps, hDepth, hThrown, exceptEng>>
  \/ \E stopOn \in StopOn :
       GameLoop(stopOn) /\ UNCHANGED <<engFps, hDepth, hThrown, exceptEng>>
  \/ \E throwOn \in ThrowOn :
       /\ StartThrows(throwOn)
       /\ hThrown' = throwOn
       /\ UNCHANGED <<engFps, hDepth, exceptEng>>
  \/ \E throwOn \in ThrowOn :
       /\ GameLoopThrows(throwOn)
       /\ hThrown' = throwOn
       /\ UNCHANGED <<engFps, hDepth, exceptEng>>
  \/ \E d \in Elapsed :
       Advance(d) /\ UNCHANGED <<engFps, hDepth, hThrown, exceptEng>>


\* -------------------------------------------------------------------------
\* InputManager
\* -------------------------------------------------------------------------

\* The delay of the release timer: setTimeout(..., 100)
HoldWindow == 100

\* The time between two turns of the input clock, in ms
InputStep == HoldWindow \div 2

\* The interrupt byte '\u0003'
CtrlC == "ctrl-c"

RawKeys == {"w", "x", CtrlC}

LogicalKeys == {"w", "x", "p1_up", "quit"}

\* this.keyMappings.get(keyStr) || keyStr
MappedKey(keyStr) ==
  IF keyStr \in DOMAIN keyMappings THEN keyMappings[keyStr] ELSE keyStr

\* this.emit(name, arg)
Event(name, arg) == [name |-> name, arg |-> arg]

\* emit() invokes the handlers subscribed with on(), for every event name,
\* unless removeAllListeners() has removed them
Handled(events) == IF subscribed THEN events ELSE <<>>

\* The record of a step: the call, its raw input and the events it emitted
LastInput(call, raw, events) ==
  /\ hInCall' = call
  /\ hRawIn' = raw
  /\ hInEvents' = events
  /\ hHandled' = Handled(events)

\* The history of a raw signal for logical key k at the present time
SignalHistory(k) ==
  /\ hLastSignal' = [hLastSignal EXCEPT ![k] = inputNow]
  /\ hUnbroken' = [hUnbroken EXCEPT ![k] =
                     IF hLastSignal[k] < 0 THEN TRUE
                     ELSE @ /\ inputNow - hLastSignal[k] < HoldWindow]

\* The 'data' listener looking the key up before it tests for the interrupt
OnDataMapsFirst(keyStr) ==
  /\ ~exited
  /\ hSignals < MaxSignals
  /\ hSignals' = hSignals + 1
  /\ IF ~(isTTY /\ flowing)
     THEN /\ LastInput("data", keyStr, <<>>)
          /\ UNCHANGED <<keys, timers, exited, hDown, hUp, hQuit, hLastSignal,
                         hUnbroken>>
     ELSE LET mappedKey == MappedKey(keyStr)
          IN IF mappedKey = CtrlC
             THEN /\ hQuit' = hQuit + 1
                  /\ exited' = TRUE
                  /\ LastInput("data", keyStr, <<Event("quit", "")>>)
                  /\ UNCHANGED <<keys, timers, hDown, hUp, hLastSignal,
                                 hUnbroken>>
             ELSE /\ keys' = keys \cup {mappedKey}
                  /\ hDown' = IF mappedKey \in keys THEN hDown
                              ELSE [hDown EXCEPT ![mappedKey] = @ + 1]
                  /\ timers' = Append(timers, [key |-> mappedKey,
                                               due |-> inputNow + HoldWindow])
                  /\ SignalHistory(mappedKey)
                  /\ LastInput("data", keyStr,
                               IF mappedKey \in keys THEN <<>>
                               ELSE <<Event("keydown", mappedKey)>>)
                  /\ UNCHANGED <<exited, hUp, hQuit>>
  /\ UNCHANGED <<keyMappings, isTTY, rawMode, flowing, subscribed, inputNow,
                 hDestroyCalled>>

\* The 'data' listener emitting keydown for every raw signal, held or not
OnDataAlwaysEmits(keyStr) ==
  /\ ~exited
  /\ hSignals < MaxSignals
  /\ hSignals' = hSignals + 1
  /\ IF ~(isTTY /\ flowing)
     THEN /\ LastInput("data", keyStr, <<>>)
          /\ UNCHANGED <<keys, timers, exited, hDown, hUp, hQuit, hLastSignal,
                         hUnbroken>>
     ELSE IF keyStr = CtrlC
     THEN /\ hQuit' = hQuit + 1
          /\ exited' = TRUE
          /\ LastInput("data", keyStr, <<Event("quit", "")>>)
          /\ UNCHANGED <<keys, timers, hDown, hUp, hLastSignal, hUnbroken>>
     ELSE LET mappedKey == MappedKey(keyStr)
          IN /\ keys' = keys \cup {mappedKey}
             /\ hDown' = [hDown EXCEPT ![mappedKey] = @ + 1]
             /\ timers' = Append(timers, [key |-> mappedKey,
                                          due |-> inputNow + HoldWindow])
             /\ SignalHistory(mappedKey)
             /\ LastInput("data", keyStr, <<Event("keydown", mappedKey)>>)
             /\ UNCHANGED <<exited, hUp, hQuit>>
  /\ UNCHANGED <<keyMappings, isTTY, rawMode, flowing, subscribed, inputNow,
                 hDestroyCalled>>

\* The raw string keyStr arrives on stdin. The 'data' listener of setupInput
\* exists on a TTY only and runs while stdin is flowing (resume / pause)
OnData(keyStr) ==
  /\ ~exited
  /\ hSignals < MaxSignals
  /\ hSignals' = hSignals + 1
  /\ IF ~(isTTY /\ flowing)
     THEN /\ LastInput("data", keyStr, <<>>)
          /\ UNCHANGED <<keys, timers, exited, hDown, hUp, hQuit, hLastSignal,
                         hUnbroken>>
     ELSE IF keyStr = CtrlC
     THEN /\ hQuit' = hQuit + 1
          /\ exited' = TRUE
          /\ LastInput("data", keyStr, <<Event("quit", "")>>)
          /\ UNCHANGED <<keys, timers, hDown, hUp, hLastSignal, hUnbroken>>
     ELSE LET mappedKey == MappedKey(keyStr)
          IN /\ keys' = keys \cup {mappedKey}
             /\ hDown' = IF mappedKey \in keys THEN hDown
                         ELSE [hDown EXCEPT ![mappedKey] = @ + 1]
             /\ timers' = Append(timers, [key |-> mappedKey,
                                          due |-> inputNow + HoldWindow])
             /\ SignalHistory(mappedKey)
             /\ LastInput("data", keyStr,
                          IF mappedKey \in keys THEN <<>>
                          ELSE <<Event("keydown", mappedKey)>>)
             /\ UNCHANGED <<exited, hUp, hQuit>>
  /\ UNCHANGED <<keyMappings, isTTY, rawMode, flowing, subscribed, inputNow,
                 hDestroyCalled>>

\* The setTimeout callback deleting the key without emitting keyup
TimerFiresSilent ==
  /\ ~exited
  /\ timers # <<>>
  /\ timers[1].due <= inputNow
  /\ keys' = keys \ {timers[1].key}
  /\ LastInput("timer", "", <<>>)
  /\ timers' = Tail(timers)
  /\ UNCHANGED <<keyMappings, isTTY, rawMode, flowing, subscribed, inputNow,
                 exited, hDown, hUp, hQuit, hLastSignal, hUnbroken, hSignals,
                 hDestroyCalled>>

\* The oldest setTimeout callback runs once its 100 ms have passed
TimerFires ==
  /\ ~exited
  /\ timers # <<>>
  /\ timers[1].due <= inputNow
  /\ LET mappedKey == timers[1].key
     IN /\ keys' = keys \ {mappedKey}
        /\ hUp' = IF mappedKey \in keys
                  THEN [hUp EXCEPT ![mappedKey] = @ + 1]
                  ELSE hUp
        /\ LastInput("timer", "",
                     IF mappedKey \in keys THEN <<Event("keyup", mappedKey)>>
                     ELSE <<>>)
  /\ timers' = Tail(timers)
  /\ UNCHANGED <<keyMappings, isTTY, rawMode, flowing, subscribed, inputNow,
                 exited, hDown, hQuit, hLastSignal, hUnbroken, hSignals,
                 hDestroyCalled>>

\* Time passes; a callback that is due runs before the clock moves on
InputTick ==
  /\ ~exited
  /\ inputNow < MaxInputSteps * InputStep
  /\ IF timers = <<>> THEN TRUE ELSE timers[1].due > inputNow
  /\ inputNow' = inputNow + InputStep
  /\ LastInput("other", "", <<>>)
  /\ UNCHANGED <<keys, keyMappings, isTTY, rawMode, flowing, subscribed,
                 timers, exited, inpHist, hDestroyCalled>>

\* mapKey(from, to)
MapKey(from, to) ==
  /\ ~exited
  /\ keyMappings' = [k \in (DOMAIN keyMappings) \cup {from} |->
                       IF k = from THEN to ELSE keyMappings[k]]
  /\ LastInput("other", "", <<>>)
  /\ UNCHANGED <<keys, isTTY, rawMode, flowing, subscribed, timers, inputNow,
                 exited, inpHist, hDestroyCalled>>

\* clearMappings()
ClearMappings ==
  /\ ~exited
  /\ keyMappings' = [k \in {} |-> ""]
  /\ LastInput("other", "", <<>>)
  /\ UNCHANGED <<keys, isTTY, rawMode, flowing, subscribed, timers, inputNow,
                 exited, inpHist, hDestroyCalled>>

\* destroy() without removeAllListeners()
DestroyKeepsListeners ==
  /\ ~exited
  /\ rawMode' = IF isTTY THEN FALSE ELSE rawMode
  /\ flowing' = IF isTTY THEN FALSE ELSE flowing
  /\ hDestroyCalled' = TRUE
  /\ LastInput("other", "", <<>>)
  /\ UNCHANGED <<keys, keyMappings, isTTY, subscribed, timers, inputNow,
                 exited, inpHist>>

\* destroy()
Destroy ==
  /\ ~exited
  /\ rawMode' = IF isTTY THEN FALSE ELSE rawMode
  /\ flowing' = IF isTTY THEN FALSE ELSE flowing
  /\ subscribed' = FALSE
  /\ hDestroyCalled' = TRUE
  /\ LastInput("other", "", <<>>)
  /\ UNCHANGED <<keys, keyMappings, isTTY, timers, inputNow, exited, inpHist>>

\* The history of the input at construction
InitInputHist ==
  /\ hDown = [k \in LogicalKeys |-> 0]
  /\ hUp = [k \in LogicalKeys |-> 0]
  /\ hQuit = 0
  /\ hLastSignal = [k \in LogicalKeys |-> -1]
  /\ hUnbroken = [k \in LogicalKeys |-> TRUE]
  /\ hSignals = 0
  /\ hInCall = "new"
  /\ hRawIn = ""
  /\ hInEvents = <<>>
  /\ hHandled = <<>>
  /\ hDestroyCalled = FALSE

\* new InputManager() entering raw mode whether or not stdin is a TTY
InitInputRawAlways(tty) ==
  /\ keys = {}
  /\ keyMappings = [k \in {} |-> ""]
  /\ isTTY = tty
  /\ rawMode = TRUE
  /\ flowing = TRUE
  /\ subscribed = TRUE
  /\ timers = <<>>
  /\ inputNow = 0
  /\ exited = FALSE
  /\ InitInputHist

\* new InputManager(): setupInput() does nothing without a TTY
InitInputOn(tty) ==
  /\ keys = {}
  /\ keyMappings = [k \in {} |-> ""]
  /\ isTTY = tty
  /\ rawMode = tty
  /\ flowing = tty
  /\ subscribed = TRUE
  /\ timers = <<>>
  /\ inputNow = 0
  /\ exited = FALSE
  /\ InitInputHist

InitInput == \E tty \in BOOLEAN : InitInputOn(tty)

InitInputIdle == InitInputOn(FALSE)

\* The bindings the input specification installs
Bindings == {<<"w", "p1_up">>, <<"x", "quit">>, <<CtrlC, "p1_up">>}

NextInput ==
  \/ \E keyStr \in RawKeys : OnData(keyStr) /\ UNCHANGED exceptInp
  \/ TimerFires /\ UNCHANGED exceptInp
  \/ InputTick /\ UNCHANGED exceptInp
  \/ \E b \in Bindings : MapKey(b[1], b[2]) /\ UNCHANGED exceptInp
  \/ ClearMappings /\ UNCHANGED exceptInp
  \/ Destroy /\ UNCHANGED exceptInp

\* Two raw keys bound to one logical name
SharedBindings == {<<"w", "p1_up">>, <<"x", "p1_up">>}

\* Raw signals of two keys, bound to one logical name or not, and the release
\* timers
NextKeys ==
  \/ \E keyStr \in {"w", "x"} : OnData(keyStr) /\ UNCHANGED exceptInp
  \/ TimerFires /\ UNCHANGED exceptInp
  \/ InputTick /\ UNCHANGED exceptInp
  \/ \E b \in SharedBindings : MapKey(b[1], b[2]) /\ UNCHANGED exceptInp
  \/ Destroy /\ UNCHANGED exceptInp

\* =========================================================================
\* RenderSystem (packages/kenji/src/systems/renderSystem.ts)
\* Positions and dimensions are in thousandths of a cell, the coordinates of
\* the Renderer in halves of a cell.
\* =========================================================================
MaxRenderCells == 2
MaxSprites == 2

\* A length in thousandths of a cell as halves of a cell, rounded down (the
\* Renderer takes the floor of the coordinate)
Halves(len) == (2 * len) \div Cell

\* How often `for (let d = 0; d < len; d++)` runs, len in thousandths
Steps(len) == IF len <= 0 THEN 0 ELSE (len + Cell - 1) \div Cell

\* The characters of the strings sprites are made of
CharsOf(str) ==
  CASE str = "a" -> <<"a">>
    [] str = "bc" -> <<"b", "c">>
    [] OTHER -> <<>>

\* The Renderer calls update makes for one entity of the query, in order
EntityCalls(entity) ==
  LET position == GetComponent(entity, "Position")
      sprite == GetComponent(entity, "Sprite")
      dimensions == GetComponent(entity, "Dimensions")
  IN IF position = Undefined \/ sprite = Undefined THEN <<>>
     ELSE IF dimensions # Undefined
     THEN LET w == Steps(dimensions.width)
              h == Steps(dimensions.height)
          IN [k \in 1..(w * h) |->
                [call |-> "drawChar", entity |-> entity,
                 x |-> Halves(position.x) + 2 * ((k - 1) % w),
                 y |-> Halves(position.y) + 2 * ((k - 1) \div w),
                 chars |-> sprite.chars, color |-> sprite.color]]
     ELSE << [call |-> "drawString", entity |-> entity,
              x |-> Halves(position.x), y |-> Halves(position.y),
              chars |-> sprite.chars, color |-> sprite.color] >>

\* The draw calls of update for the entities ents, in order
RECURSIVE UpdateCalls(_)
UpdateCalls(ents) ==
  IF ents = <<>> THEN <<>>
  ELSE EntityCalls(Head(ents)) \o UpdateCalls(Tail(ents))

\* The draw calls `calls` made in order on buffer b
RECURSIVE RenderCallsIn(_, _)
RenderCallsIn(b, calls) ==
  IF calls = <<>> THEN b
  ELSE LET c == Head(calls)
       IN RenderCallsIn(
            IF c.call = "drawChar"
            THEN DrawCharIn(b, c.x, c.y, c.chars, c.color)
            ELSE DrawStringIn(b, c.x, c.y, CharsOf(c.chars), c.color, 0),
            Tail(calls))

\* console.log called with every output whatever it is
LoggedAlways(output) == <<output>>

\* if (output) console.log(output): the calls of console.log
Logged(output) == IF output # <<>> THEN <<output>> ELSE <<>>

\* RenderSystem.update(world, interpolation): clear, the draw calls, flip
Update ==
  LET calls == UpdateCalls(Query({"Position", "Sprite"}))
      back == RenderCallsIn(CreateBuffer(width, height), calls)
      hasChanges == \E y \in Rows, x \in Cols :
                      CellDiffers(back, previousBuffer, x, y)
      output == IF hasChanges THEN JoinLines(FrameText(back)) ELSE <<>>
  IN /\ backBuffer' = back
     /\ frontBuffer' = back
     /\ previousBuffer' = back
     /\ hOutput' = output
     /\ hRowsEmitted' = IF hasChanges THEN Rows ELSE {}
     /\ hRowsChanged' = {y \in Rows : \E x \in Cols :
                           CellDiffers(back, previousBuffer, x, y)}
     /\ hSeq' = IF calls # <<>> THEN "cycle" ELSE "flip"
     /\ hUpdate' = [op |-> "update",
                    calls |-> <<[call |-> "clear"]>> \o calls
                                \o <<[call |-> "flip"]>>,
                    logged |-> Logged(output)]
     /\ UNCHANGED <<width, height, worldVars, worldHist>>

\* The components the entities are given
RenderData(type) ==
  CASE type = "Position" ->
         {[x |-> 0, y |-> 0], [x |-> 0 - Cell \div 2, y |-> 0]}
    [] type = "Sprite" ->
         {[chars |-> "a", color |-> "red"], [chars |-> "bc", color |-> "white"]}
    [] OTHER ->
         {[width |-> Cell + Cell \div 2, height |-> 2 * Cell]}

NextRender ==
  \/ /\ nextEntityId <= MaxSprites
     /\ CreateEntity
     /\ hUpdate' = NoUpdate
     /\ UNCHANGED <<rendVars, rendHist, exceptRender>>
  \/ \E e \in Range(entities), type \in {"Position", "Sprite", "Dimensions"} :
       \E data \in RenderData(type) :
         /\ AddComponent(e, type, data)
         /\ hUpdate' = NoUpdate
         /\ UNCHANGED <<rendVars, rendHist, exceptRender>>
  \/ Update /\ UNCHANGED exceptRender

\* =========================================================================
\* EditorBuffer (packages/tui/src/components/editor/EditorBuffer.ts)
\* A string is a sequence of characters; a snapshot is modelled by its lines
\* (its timestamp is never read).
\* =========================================================================
MaxUndoSteps == 100
MaxEdits == 3

Newline == "\n"

\* An index clamped to 0..n, as String.prototype.substring clamps it
Clamp(i, n) == IF i < 0 THEN 0 ELSE IF i > n THEN n ELSE i

\* str.substring(from, to): both clamped, swapped when from > to
Substring(str, from, to) ==
  LET a == Clamp(from, Len(str))
      b == Clamp(to, Len(str))
  IN IF a <= b THEN SubSeq(str, a + 1, b) ELSE SubSeq(str, b + 1, a)

\* str.substring(from)
SubstringFrom(str, from) == Substring(str, from, Len(str))

\* str.split('\n')
RECURSIVE Split(_)
Split(str) ==
  IF \A i \in 1..Len(str) : str[i] # Newline
  THEN <<str>>
  ELSE LET i == CHOOSE j \in 1..Len(str) :
                  str[j] = Newline /\ \A k \in 1..(j - 1) : str[k] # Newline
       IN <<SubSeq(str, 1, i - 1)>> \o Split(SubSeq(str, i + 1, Len(str)))

\* ls.join('\n')
RECURSIVE Join(_)
Join(ls) ==
  IF ls = <<>> THEN <<>>
  ELSE IF Len(ls) = 1 THEN ls[1]
  ELSE ls[1] \o <<Newline>> \o Join(Tail(ls))

\* ls.splice(start, deleteCount, ...items), for 0 <= start <= ls.length
Splice(ls, start, deleteCount, items) ==
  LET count == Clamp(deleteCount, Len(ls) - start)
  IN SubSeq(ls, 1, start) \o items \o SubSeq(ls, start + count + 1, Len(ls))

\* ensureLineExists(lineIndex): the lines, padded with '' up to lineIndex
EnsureLineExists(ls, lineIndex) ==
  IF Len(ls) > lineIndex THEN ls
  ELSE ls \o [i \in 1..(lineIndex + 1 - Len(ls)) |-> <<>>]

\* getText()
GetText == Join(lines)

\* saveSnapshot(), the lines being newLines
SaveSnapshot(newLines) ==
  /\ undoStack' = LET pushed == Append(undoStack, newLines)
                  IN IF Len(pushed) > MaxUndoSteps THEN Tail(pushed)
                     ELSE pushed
  /\ redoStack' = <<>>

\* What an edit leaves in the history
EditHistory(op, newLines) ==
  /\ hBufCall' = [op |-> op]
  /\ hEdits' = hEdits + 1
  /\ IF newLines # lines
     THEN hTrip' = "edited" /\ hA' = lines /\ hB' = newLines
     ELSE hTrip' = "none" /\ hA' = <<>> /\ hB' = <<>>

\* new EditorBuffer(initialContent)
InitBuffer(initialContent) ==
  /\ lines = IF initialContent # <<>> THEN Split(initialContent) ELSE << <<>> >>
  /\ undoStack = <<lines>>
  /\ redoStack = <<>>
  /\ hBufCall = [op |-> "new"]
  /\ hTrip = "none"
  /\ hA = <<>>
  /\ hB = <<>>
  /\ hEdits = 0

InitBufferIdle == InitBuffer(<<>>)

\* insertText({line, column}, text)
InsertText(line, column, text) ==
  /\ hEdits < MaxEdits
  /\ LET ensured == EnsureLineExists(lines, line)
         cur == ensured[line + 1]
         newLine == Substring(cur, 0, column) \o text
                      \o SubstringFrom(cur, column)
         newLines == Splice(ensured, line, 1, Split(newLine))
     IN /\ lines' = newLines
        /\ SaveSnapshot(newLines)
        /\ EditHistory("insertText", newLines)

\* deleteText({start: {line: sl, column: sc}, end: {line: el, column: ec}})
DeleteText(sl, sc, el, ec) ==
  /\ hEdits < MaxEdits
  /\ LET ensured == EnsureLineExists(lines, IF sl > el THEN sl ELSE el)
         before == Substring(ensured[sl + 1], 0, sc)
         after == SubstringFrom(ensured[el + 1], ec)
         joined == [ensured EXCEPT ![sl + 1] = before \o after]
         newLines == IF sl = el THEN joined
                     ELSE Splice(joined, sl + 1, el - sl, <<>>)
     IN /\ lines' = newLines
        /\ SaveSnapshot(newLines)
        /\ EditHistory("deleteText", newLines)

\* undo()
Undo ==
  /\ IF Len(undoStack) > 1
     THEN /\ redoStack' = Append(redoStack, lines)
          /\ lines' = undoStack[Len(undoStack)]
          /\ undoStack' = SubSeq(undoStack, 1, Len(undoStack) - 1)
          /\ hBufCall' = [op |-> "undo", result |-> TRUE]
     ELSE /\ UNCHANGED bufVars
          /\ hBufCall' = [op |-> "undo", result |-> FALSE]
  /\ IF hTrip = "edited"
     THEN hTrip' = "undone" /\ UNCHANGED <<hA, hB>>
     ELSE hTrip' = "none" /\ hA' = <<>> /\ hB' = <<>>
  /\ UNCHANGED hEdits

\* redo()
Redo ==
  /\ IF redoStack # <<>>
     THEN /\ undoStack' = Append(undoStack, lines)
          /\ lines' = redoStack[Len(redoStack)]
          /\ redoStack' = SubSeq(redoStack, 1, Len(redoStack) - 1)
          /\ hBufCall' = [op |-> "redo", result |-> TRUE]
     ELSE /\ UNCHANGED bufVars
          /\ hBufCall' = [op |-> "redo", result |-> FALSE]
  /\ hTrip' = "none" /\ hA' = <<>> /\ hB' = <<>>
  /\ UNCHANGED hEdits

\* The contents the buffer is constructed with, and the arguments of the edits
InitialContents == {<<>>, <<"a">>, <<"a", Newline, "b">>}
EditLines == 0..1
EditColumns == 0..1
EditTexts == {<<>>, <<"c">>, <<Newline>>}

NextBuffer ==
  \/ \E l \in EditLines, c \in EditColumns, t \in EditTexts :
       InsertText(l, c, t) /\ UNCHANGED exceptBuf
  \/ \E sl \in EditLines, sc \in EditColumns, el \in EditLines,
        ec \in EditColumns :
       DeleteText(sl, sc, el, ec) /\ UNCHANGED exceptBuf
  \/ Undo /\ UNCHANGED exceptBuf
  \/ Redo /\ UNCHANGED exceptBuf

\* =========================================================================
\* KeybindManager (unnamed/part_010)
\* =========================================================================
\* The names of the KeyModifier type
Modifiers == {"ctrl", "alt", "shift", "meta"}

\* array.includes(x)
Includes(array, x) == \E i \in 1..Len(array) : array[i] = x

\* !!event[flag], the flag being optional
Flag(event, flag) == flag \in DOMAIN event /\ event[flag]

\* keybind.modifiers || []
ModifiersOf(keybind) ==
  IF "modifiers" \in DOMAIN keybind THEN keybind.modifiers ELSE <<>>

\* matchesKeybind with the rule of useKeyboardShortcuts: a listed modifier
\* must be set, the others are not looked at
MatchesKeybindLoose(event, keybind) ==
  IF event.name # keybind.key THEN FALSE
  ELSE \A m \in Modifiers :
         Includes(ModifiersOf(keybind), m) => Flag(event, m)

\* matchesKeybind(event, keybind)
MatchesKeybind(event, keybind) ==
  IF event.name # keybind.key THEN FALSE
  ELSE LET modifiers == ModifiersOf(keybind)
           hasCtrl == Includes(modifiers, "ctrl")
           hasAlt == Includes(modifiers, "alt")
           hasShift == Includes(modifiers, "shift")
           hasMeta == Includes(modifiers, "meta")
       IN /\ hasCtrl = Flag(event, "ctrl")
          /\ hasAlt = Flag(event, "alt")
          /\ hasShift = Flag(event, "shift")
          /\ hasMeta = Flag(event, "meta")

\* The key events and keybinds matchesKeybind is applied to: each flag of an
\* event is true, false or absent; the modifiers of a keybind are a list or
\* absent
KeyNames == {"s", "q"}
KeyEvents ==
  UNION {{[f \in P \cup {"name"} |-> IF f = "name" THEN n ELSE f \in T] :
            n \in KeyNames, T \in SUBSET P} : P \in SUBSET Modifiers}
ModifierLists ==
  {<<>>, <<"ctrl">>, <<"alt">>, <<"meta">>, <<"ctrl", "shift">>,
   <<"shift", "ctrl">>, <<"ctrl", "ctrl">>, <<"ctrl", "alt", "shift", "meta">>}
Keybinds ==
  {[key |-> k] : k \in KeyNames}
    \cup {[key |-> k, modifiers |-> l] : k \in KeyNames, l \in ModifierLists}

InitMatch ==
  /\ kbEvent \in KeyEvents
  /\ kbKeybind \in Keybinds
  /\ hMatches = [called |-> FALSE]

\* The call matchesKeybind(kbEvent, kbKeybind)
CallMatchesKeybind ==
  /\ ~hMatches.called
  /\ hMatches' = [called |-> TRUE,
                  result |-> MatchesKeybind(kbEvent, kbKeybind)]
  /\ UNCHANGED <<kbEvent, kbKeybind>>

NextMatch == CallMatchesKeybind /\ UNCHANGED exceptMatch

InitMatchIdle ==
  /\ kbEvent = [name |-> "s"]
  /\ kbKeybind = [key |-> "s"]
  /\ hMatches = [called |-> FALSE]

\* ---- contexts, handlers and handleKeyEvent ----
MaxHandlers == 2

\* The config before loadConfig has set it
NoConfig == [loaded |-> FALSE]

\* new KeybindManager(): initializeContexts, loadConfig still pending
InitManager ==
  /\ config = NoConfig
  /\ contexts = [id \in {"global", "navigation", "modal"} |->
                   CASE id = "global" -> [priority |-> 0, active |-> TRUE]
                     [] id = "navigation" -> [priority |-> 10, active |-> TRUE]
                     [] id = "modal" -> [priority |-> 100, active |-> FALSE]]
  /\ activeContexts = <<"global">>
  /\ handlers = << >>
  /\ hKbCall = [op |-> "new"]
  /\ hInvoked = <<>>

\* A call that is not handleKeyEvent
OtherKbCall == hKbCall' = [op |-> "other"] /\ hInvoked' = <<>>

\* loadConfig() completes: this.config = keybindConfig
LoadConfig(keybindConfig) ==
  /\ ~config.loaded
  /\ config' = [loaded |-> TRUE, keybinds |-> keybindConfig]
  /\ OtherKbCall
  /\ UNCHANGED <<contexts, activeContexts, handlers>>

\* activateContext(contextId, priority)
ActivateContext(contextId, priority) ==
  /\ contexts' =
       LET known == IF contextId \in DOMAIN contexts THEN contexts
                    ELSE [id \in DOMAIN contexts \cup {contextId} |->
                            IF id = contextId
                            THEN [priority |-> priority, active |-> TRUE]
                            ELSE contexts[id]]
       IN [known EXCEPT ![contextId].active = TRUE]
  /\ activeContexts' = SetAdd(activeContexts, contextId)
  /\ OtherKbCall
  /\ UNCHANGED <<config, handlers>>

\* deactivateContext(contextId)
DeactivateContext(contextId) ==
  /\ IF contextId \in DOMAIN contexts
     THEN /\ contexts' = [contexts EXCEPT ![contextId].active = FALSE]
          /\ activeContexts' = SetDelete(activeContexts, contextId)
     ELSE UNCHANGED <<contexts, activeContexts>>
  /\ OtherKbCall
  /\ UNCHANGED <<config, handlers>>

\* register(action, handler, context): the handler is given by what it returns
Register(action, handler, context) ==
  /\ \/ <<context, action>> \in DOMAIN handlers
     \/ Cardinality(DOMAIN handlers) < MaxHandlers
  /\ handlers' = [key \in DOMAIN handlers \cup {<<context, action>>} |->
                    IF key = <<context, action>> THEN handler
                    ELSE handlers[key]]
  /\ OtherKbCall
  /\ UNCHANGED <<config, contexts, activeContexts>>

\* unregister(action, context)
Unregister(action, context) ==
  /\ handlers' = [key \in DOMAIN handlers \ {<<context, action>>} |->
                    handlers[key]]
  /\ OtherKbCall
  /\ UNCHANGED <<config, contexts, activeContexts>>

\* Every context with the same priority
PriorityIgnored(id) == 0

\* this.contexts.get(id)?.priority || 0
PriorityOf(id) == IF id \in DOMAIN contexts THEN contexts[id].priority ELSE 0

\* One step of the (stable) sort: id is placed behind every context whose
\* priority is not below its own
RECURSIVE InsertByPriority(_, _)
InsertByPriority(sorted, id) ==
  IF sorted = <<>> THEN <<id>>
  ELSE IF PriorityOf(sorted[Len(sorted)]) >= PriorityOf(id)
  THEN Append(sorted, id)
  ELSE Append(InsertByPriority(SubSeq(sorted, 1, Len(sorted) - 1), id),
              sorted[Len(sorted)])

\* Array.from(this.activeContexts).sort((a, b) => priorityB - priorityA)
RECURSIVE SortedContexts(_)
SortedContexts(ids) ==
  IF ids = <<>> THEN <<>>
  ELSE InsertByPriority(SortedContexts(SubSeq(ids, 1, Len(ids) - 1)),
                        ids[Len(ids)])

\* getKeybindsForContext(contextId)
GetKeybindsForContext(contextId) ==
  IF ~config.loaded THEN <<>>
  ELSE IF contextId = "global" THEN config.keybinds.global
  ELSE IF contextId = "navigation"
  THEN IF "navigation" \in DOMAIN config.keybinds
       THEN config.keybinds.navigation ELSE <<>>
  ELSE IF contextId = "modal" THEN config.keybinds.modals
  ELSE IF contextId \in DOMAIN config.keybinds.views
  THEN config.keybinds.views[contextId]
  ELSE <<>>

\* !keybind.enabled && keybind.enabled !== undefined
Disabled(keybind) == "enabled" \in DOMAIN keybind /\ ~keybind.enabled

\* keybind.preventDefault, as a condition
PreventDefault(keybind) ==
  "preventDefault" \in DOMAIN keybind /\ keybind.preventDefault

\* The two loops of handleKeyEvent from keybind k of the first context on:
\* the result and the handlers invoked
RECURSIVE TryKeybinds(_, _, _, _)
TryKeybinds(sortedContexts, k, event, invoked) ==
  IF sortedContexts = <<>> THEN [result |-> FALSE, invoked |-> invoked]
  ELSE LET contextId == Head(sortedContexts)
           keybinds == GetKeybindsForContext(contextId)
       IN IF k > Len(keybinds)
          THEN TryKeybinds(Tail(sortedContexts), 1, event, invoked)
          ELSE LET keybind == keybinds[k]
                   handlerKey == <<contextId, keybind.action>>
                   hasHandler == handlerKey \in DOMAIN handlers
                   after == IF hasHandler
                            THEN Append(invoked, <<contextId, k>>)
                            ELSE invoked
               IN IF Disabled(keybind) THEN
                    TryKeybinds(sortedContexts, k + 1, event, invoked)
                  ELSE IF ~MatchesKeybind(event, keybind) THEN
                    TryKeybinds(sortedContexts, k + 1, event, invoked)
                  ELSE IF hasHandler /\ handlers[handlerKey] # "false" THEN
                    [result |-> TRUE, invoked |-> after]
                  ELSE IF PreventDefault(keybind) THEN
                    [result |-> TRUE, invoked |-> after]
                  ELSE TryKeybinds(sortedContexts, k + 1, event, after)

\* handleKeyEvent(event)
HandleKeyEvent(event) ==
  /\ LET outcome == IF ~config.loaded
                    THEN [result |-> FALSE, invoked |-> <<>>]
                    ELSE TryKeybinds(SortedContexts(activeContexts), 1, event,
                                     <<>>)
     IN /\ hKbCall' = [op |-> "handleKeyEvent", event |-> event,
                       result |-> outcome.result]
        /\ hInvoked' = outcome.invoked
  /\ UNCHANGED mgrVars

\* The keybinds of the configs: Ctrl+S bound to save, the same disabled, plain
\* s bound to save, and Ctrl+S bound to hold with preventDefault
Save == [key |-> "s", modifiers |-> <<"ctrl">>, action |-> "save"]
SaveOff ==
  [key |-> "s", modifiers |-> <<"ctrl">>, action |-> "save", enabled |-> FALSE]
Plain == [key |-> "s", action |-> "save", enabled |-> TRUE]
Hold ==
  [key |-> "s", modifiers |-> <<"ctrl">>, action |-> "hold",
   preventDefault |-> TRUE]
KeybindLists == {<<>>, <<Save>>, <<Hold, Save>>, <<SaveOff, Plain, Save>>}
KeybindConfigs ==
  {[global |-> g, modals |-> m, views |-> [editor |-> e]] :
     g \in KeybindLists \ {<<>>}, m \in {<<>>, <<Save>>},
     e \in {<<Save>>, <<Hold, Save>>}}

\* The arguments of the calls
HandledEvents == {[name |-> "s", ctrl |-> TRUE], [name |-> "s"]}
ActivatedContexts == {"modal", "editor"}
ActivatedPriorities == {50, 200}
HandlerKeys ==
  {<<"global", "save">>, <<"global", "hold">>, <<"editor", "save">>,
   <<"modal", "save">>}
HandlerReturns == {"false", "undefined", "true"}

NextManager ==
  \/ \E c \in KeybindConfigs : LoadConfig(c) /\ UNCHANGED exceptMgr
  \/ \E id \in ActivatedContexts, priority \in ActivatedPriorities :
       ActivateContext(id, priority) /\ UNCHANGED exceptMgr
  \/ \E id \in ActivatedContexts \cup {"global", "view"} :
       DeactivateContext(id) /\ UNCHANGED exceptMgr
  \/ \E key \in HandlerKeys, handler \in HandlerReturns :
       Register(key[2], handler, key[1]) /\ UNCHANGED exceptMgr
  \/ \E key \in HandlerKeys : Unregister(key[2], key[1]) /\ UNCHANGED exceptMgr
  \/ \E event \in HandledEvents : HandleKeyEvent(event) /\ UNCHANGED exceptMgr

InitKeybindIdle == InitMatchIdle /\ InitManager

InitTuiIdle == InitBufferIdle /\ InitKeybindIdle

\* -------------------------------------------------------------------------
\* Specifications
\* -------------------------------------------------------------------------
InitEcsIdle == InitWorldVars /\ InitWorldHist /\ InitSysHist

InitWorld == InitEcsIdle /\ InitRendererIdle /\ InitEngineIdle /\ InitInputIdle
  /\ InitTuiIdle

InitSystems ==
  InitSystemsEcs /\ InitRendererIdle /\ InitEngineIdle /\ InitInputIdle
  /\ InitTuiIdle

InitRend == InitRenderer /\ InitEcsIdle /\ InitEngineIdle /\ InitInputIdle
  /\ InitTuiIdle

InitEng == InitEngine /\ InitEcsIdle /\ InitRendererIdle /\ InitInputIdle
  /\ InitTuiIdle

InitInp == InitInput /\ InitEcsIdle /\ InitRendererIdle /\ InitEngineIdle
  /\ InitTuiIdle

vars == <<ecsVars, rendAll, engAll, inpAll, tuiAll, hUpdate>>

SpecWorld == InitWorld /\ [][NextWorld]_vars

SpecSystems == InitSystems /\ [][NextSystems]_vars

SpecRenderer == InitRend /\ [][NextRenderer]_vars

InitDraw ==
  NewRenderer(MaxDrawCells) /\ InitEcsIdle /\ InitEngineIdle /\ InitInputIdle
  /\ InitTuiIdle

SpecDraw == InitDraw /\ [][NextDraw]_vars

InitBox ==
  NewRenderer(MaxBoxCells) /\ InitEcsIdle /\ InitEngineIdle /\ InitInputIdle
  /\ InitTuiIdle

SpecBox == InitBox /\ [][NextBox]_vars

InitFrames ==
  NewRenderer(MaxFrameCells) /\ InitEcsIdle /\ InitEngineIdle /\ InitInputIdle
  /\ InitTuiIdle

SpecFrames == InitFrames /\ [][NextFrames]_vars

SpecEngine == InitEng /\ [][NextEngine]_vars

SpecReentry == InitEng /\ [][NextReentry]_vars

SpecFailure == InitEng /\ [][NextFailure]_vars

SpecInput == InitInp /\ [][NextInput]_vars

SpecKeys == InitInp /\ [][NextKeys]_vars

InitRender ==
  /\ NewRenderer(MaxRenderCells) /\ InitEcsIdle /\ InitEngineIdle
  /\ InitInputIdle /\ InitTuiIdle

SpecRender == InitRender /\ [][NextRender]_vars

InitBuf ==
  /\ \E initialContent \in InitialContents : InitBuffer(initialContent)
  /\ InitEcsIdle /\ InitRendererIdle /\ InitEngineIdle /\ InitInputIdle
  /\ InitKeybindIdle

SpecBuffer == InitBuf /\ [][NextBuffer]_vars

InitMatching ==
  /\ InitMatch /\ InitManager
  /\ InitEcsIdle /\ InitRendererIdle /\ InitEngineIdle /\ InitInputIdle
  /\ InitBufferIdle

SpecMatch == InitMatching /\ [][NextMatch]_vars

SpecManager == InitWorld /\ [][NextManager]_vars

\* =========================================================================
\* Claims about the World (checked under SpecWorld)
\* =========================================================================

LiveIds == hCreated \ hDestroyed

\* C4: after any sequence of createEntity and destroyEntity calls the set of
\* live entity ids, which is what query() with no types returns, is exactly
\* the ids created minus the ids destroyed (an id is destroyed from its
\* destroyEntity until createEntity returns it again).
C4_LiveSetIsCreatedMinusDestroyed ==
  /\ Range(Query({})) = hCreated \ hDestroyed
  /\ Range(entities) = hCreated \ hDestroyed

\* An id has been destroyed and handed out again while another stays destroyed
C4_Witness ==
  /\ hCall.op = "createEntity"
  /\ hCall.entity < nextEntityId - 1
  /\ hDestroyed # {}
  /\ Cardinality(hCreated \ hDestroyed) >= 2

\* C5: after addComponent(e,T,d) on an entity e, getComponent(e,T) yields d
\* until removeComponent(e,T) or destroyEntity(e); after removeComponent(e,T),
\* hasComponent(e,T) is false.
C5_ComponentLifecycle ==
  /\ \A e \in EntityIds, t \in ComponentTypes :
       GetComponent(e, t) = hExpect[e][t]
  /\ hCall.op = "removeComponent" => ~HasComponent(hCall.entity, hCall.type)
  /\ hCall.op = "destroyEntity" =>
       \A t \in ComponentTypes : ~HasComponent(hCall.entity, t)

\* A component has just been re-added with other data beside a removed one
C5_Witness ==
  /\ hCall.op = "addComponent"
  /\ hCall.entity = 1
  /\ hCall.type = "Position"
  /\ 1 \in LiveIds
  /\ GetComponent(1, "Position") = [x |-> 9 * Cell, y |-> 0]
  /\ GetComponent(1, "Velocity") # Undefined
  /\ 2 \in LiveIds
  /\ GetComponent(2, "Position") = Undefined

\* C6: query(T1..Tn) returns, without duplicates, exactly the live entities
\* holding every Ti; with no types it returns all live entities; it never
\* returns a destroyed id.
C6_QueryExact ==
  \A ts \in SUBSET ComponentTypes :
    LET q == Query(ts)
    IN /\ Range(q) = {e \in LiveIds : \A t \in ts : HasComponent(e, t)}
       /\ Len(q) = Cardinality(Range(q))
       /\ Range(q) \cap hDestroyed = {}
       /\ (ts = {} => Range(q) = LiveIds)

\* Three live entities of which the query for both types selects exactly one,
\* with a destroyed id beside them
C6_Witness ==
  /\ Cardinality(LiveIds) = 2
  /\ hDestroyed # {}
  /\ Len(Query({"Position", "Velocity"})) = 1
  /\ Len(Query({"Position"})) = 2
  /\ Len(Query({})) = 2

\* C21: createEntity() reuses freed ids before minting new ones, most recently
\* freed first: while ids are free it returns the one destroyed last and not
\* yet reused (so a free id comes back after as many createEntity calls as
\* there are free ids above it), and only with none free it returns a new id,
\* larger than every id returned since the last clear().
C21_ReuseMostRecentlyFreedFirst ==
  [][hCall'.op = "createEntity" =>
       IF hFreed # <<>>
       THEN /\ hCall'.entity = hFreed[Len(hFreed)]
            /\ hFreed' = SubSeq(hFreed, 1, Len(hFreed) - 1)
       ELSE /\ hCall'.entity \notin hMinted
            /\ \A m \in hMinted : hCall'.entity > m]_vars

\* With two ids free, createEntity has returned the one destroyed last, which
\* is not the smaller one
C21_Witness ==
  /\ hCall.op = "createEntity"
  /\ hCall.entity = 2
  /\ hFreed = <<1>>
  /\ hMinted = {1, 2, 3}

\* C22: an id in the free pool is never live: the pool and the live set are
\* disjoint, the pool holds no id twice, and createEntity never returns an id
\* that is live at the time of the call.
C22_PooledIdsAreNotLive ==
  /\ [](/\ Range(entityPools) \cap Range(entities) = {}
        /\ Range(entityPools) \cap LiveIds = {}
        /\ Cardinality(Range(entityPools)) = Len(entityPools))
  /\ [][hCall'.op = "createEntity" =>
          /\ hCall'.entity \notin Range(entities)
          /\ hCall'.entity \notin LiveIds]_vars

\* The same id was destroyed twice in a row while another id was free
C22_Witness ==
  /\ hCall.op = "destroyEntity"
  /\ hCall.entity \in Range(entityPools)
  /\ hFreed = <<2, hCall.entity>>
  /\ Len(entityPools) = 2
  /\ Len(entities) = 1

\* C23: addComponent, removeComponent and destroyEntity on an id that is not
\* live, and removeComponent of an absent component, leave the whole World
\* state unchanged; for an id that is not live getComponent returns the absent
\* value and hasComponent returns false.
C23_InvalidReferencesAreNoOps ==
  /\ [](\A e \in EntityIds \ LiveIds : \A t \in ComponentTypes :
          ~HasComponent(e, t) /\ GetComponent(e, t) = Undefined)
  /\ [][/\ (/\ hCall'.op \in {"addComponent", "removeComponent",
                              "destroyEntity"}
            /\ hCall'.entity \notin LiveIds) => UNCHANGED worldVars
        /\ (/\ hCall'.op = "removeComponent"
            /\ ~HasComponent(hCall'.entity, hCall'.type)) =>
             UNCHANGED worldVars]_vars

\* addComponent on a destroyed id, in a World that holds components and a
\* free id
C23_Witness ==
  /\ hCall.op = "addComponent"
  /\ hCall.entity \in hDestroyed
  /\ hCall.entity \in Range(entityPools)
  /\ LiveIds # {}
  /\ \E e \in LiveIds : HasComponent(e, "Position")

\* C24: destroyEntity(e) purges every component of e: afterwards
\* hasComponent(e,T) is false for all T and e is in no query result, and when
\* createEntity returns the id again the new entity holds no component.
C24_DestroyPurgesComponents ==
  /\ hCall.op = "destroyEntity" =>
       /\ \A t \in ComponentTypes : ~HasComponent(hCall.entity, t)
       /\ \A ts \in SUBSET ComponentTypes : hCall.entity \notin Range(Query(ts))
  /\ hCall.op = "createEntity" =>
       \A t \in ComponentTypes :
         ~HasComponent(hCall.entity, t) /\ GetComponent(hCall.entity, t) = Undefined

\* createEntity has returned an id whose previous owner held components
C24_Witness ==
  /\ hCall.op = "createEntity"
  /\ hCall.purged
  /\ hCall.entity < nextEntityId - 1
  /\ \E e \in LiveIds : HasComponent(e, "Velocity")

\* C25: after clear() query() is empty, hasComponent(e,T) is false for every e
\* and T, the free pool is empty, and the following createEntity calls return
\* the ids a freshly constructed World returns, in the same order.
C25_ClearResetsTheWorld ==
  /\ [](hCall.op = "clear" =>
          /\ Query({}) = <<>>
          /\ \A e \in EntityIds, t \in ComponentTypes : ~HasComponent(e, t)
          /\ entityPools = <<>>
          /\ InitWorldVars)
  /\ [][(hCall'.op = "createEntity" /\ hFreed = <<>>) =>
          hCall'.entity = Cardinality(hMinted) + 1]_vars

\* The second createEntity after a clear() of a World that had minted three ids
C25_Witness ==
  /\ hCall.op = "createEntity"
  /\ hCall.entity = 2
  /\ hMinted = {1, 2}
  /\ hCreated = {1, 2, 3}
  /\ 3 \in hDestroyed
  /\ entityPools = <<>>

\* =========================================================================
\* Claims about the Systems (checked under SpecSystems)
\* =========================================================================

\* The number of handleCollision calls of the last update made for {a, b}
CallsFor(a, b) ==
  Cardinality({i \in 1..Len(hCollisions) :
                 hCollisions[i] = <<a, b>> \/ hCollisions[i] = <<b, a>>})

Collidable(e) ==
  /\ HasComponent(e, "Position")
  /\ HasComponent(e, "Dimensions")
  /\ HasComponent(e, "Collider")
  /\ GetComponent(e, "Collider").active

\* C8: Collision.update invokes the response hook exactly once for every
\* unordered pair of distinct entities that both hold Position, Dimensions and
\* an active Collider and whose boxes overlap, and never for a pair that does
\* not overlap, a pair with an inactive collider, or an entity with itself.
C8_OncePerOverlappingPair ==
  hCall.op = "collisionUpdate" =>
    /\ \A a \in EntityIds, b \in EntityIds :
         CallsFor(a, b) =
           IF /\ a # b
              /\ a \in LiveIds /\ b \in LiveIds
              /\ Collidable(a) /\ Collidable(b)
              /\ CheckCollision(components["Position"][a],
                                components["Dimensions"][a],
                                components["Position"][b],
                                components["Dimensions"][b])
           THEN 1 ELSE 0
    /\ \A i \in 1..Len(hCollisions) : hCollisions[i][1] # hCollisions[i][2]

\* An update that reported two of the three pairs, the third not overlapping
C8_Witness ==
  /\ hCall.op = "collisionUpdate"
  /\ Len(hCollisions) = 2
  /\ Cardinality({e \in LiveIds : Collidable(e)}) = 3

\* C9: checkCollision is true exactly when a.x < b.x+b.w, a.x+a.w > b.x,
\* a.y < b.y+b.h and a.y+a.h > b.y; boxes that share only a boundary edge
\* (A x in [0,10), B x in [10,20), same y-range) do not overlap, boxes that
\* overlap by one unit do.
C9_CheckCollisionOpenFarEdges ==
  \A a \in LiveIds, b \in LiveIds :
    (/\ HasComponent(a, "Position") /\ HasComponent(a, "Dimensions")
     /\ HasComponent(b, "Position") /\ HasComponent(b, "Dimensions")) =>
      LET pa == components["Position"][a]
          da == components["Dimensions"][a]
          pb == components["Position"][b]
          db == components["Dimensions"][b]
          hit == CheckCollision(pa, da, pb, db)
          sameY == pa.y = pb.y /\ da.height = db.height /\ da.height > 0
      IN /\ hit <=> (/\ pa.x < pb.x + db.width /\ pa.x + da.width > pb.x
                     /\ pa.y < pb.y + db.height /\ pa.y + da.height > pb.y)
         /\ (sameY /\ pa.x + da.width = pb.x) => ~hit
         /\ (sameY /\ pb.x + db.width = pa.x) => ~hit
         /\ (sameY /\ da.width > Cell /\ pa.x + da.width = pb.x + Cell) => hit

\* A at x in [0,10), B at x in [10,20) and C at x in [9,19), all on the same
\* rows, after an update that reported A-C and B-C but not A-B
C9_Witness ==
  /\ hCall.op = "collisionUpdate"
  /\ hTotalDt = 0
  /\ LiveIds = {1, 2, 3}
  /\ \A e \in {1, 2, 3} : Collidable(e) /\ GetComponent(e, "Dimensions") = Box10
  /\ GetComponent(1, "Position") = At(0, 0)
  /\ GetComponent(2, "Position") = At(10, 0)
  /\ GetComponent(3, "Position") = At(9, 0)
  /\ hCollisions = << <<1, 3>>, <<2, 3>> >>

\* C10: Movement.update(world, dt) adds velocity * dt/1000 to the position of
\* every entity holding Position and Velocity, without clamping, and leaves
\* velocities, other components and other entities unchanged; steps totalling
\* 1000 ms move a ball with vx = 20 to initial_x + 20.
C10_MovementAddsVelocity ==
  /\ DOMAIN components = DOMAIN hInit
  /\ \A t \in DOMAIN components :
       /\ DOMAIN components[t] = DOMAIN hInit[t]
       /\ \A e \in DOMAIN components[t] :
            IF t = "Position" /\ "Velocity" \in DOMAIN hInit
               /\ e \in DOMAIN hInit["Velocity"]
            THEN /\ components[t][e].x * 1000 =
                      hInit[t][e].x * 1000
                        + hInit["Velocity"][e].vx * hTotalDt * Cell
                 /\ components[t][e].y * 1000 =
                      hInit[t][e].y * 1000
                        + hInit["Velocity"][e].vy * hTotalDt * Cell
                 /\ (hTotalDt = 1000 /\ hInit["Velocity"][e].vx = 20) =>
                      components[t][e].x = hInit[t][e].x + 20 * Cell
            ELSE components[t][e] = hInit[t][e]
  /\ entities = [e \in 1..Len(entities) |-> e]
  /\ hCreated = Range(entities)

\* One simulated second in several steps has moved a ball with vx = 20 beside
\* an entity that has no velocity
C10_Witness ==
  /\ hCall.op = "movementUpdate"
  /\ hCall.deltaTime = 250
  /\ hTotalDt = 1000
  /\ HasComponent(1, "Velocity")
  /\ GetComponent(1, "Velocity") = Moving
  /\ GetComponent(1, "Position") = [x |-> 20 * Cell, y |-> 4 * Cell]
  /\ HasComponent(2, "Position")
  /\ ~HasComponent(2, "Velocity")

\* =========================================================================
\* Claims about the Renderer (checked under SpecRenderer)
\* =========================================================================

\* The last call was flip()
JustFlipped == hSeq \in {"flip", "cycle", "flip-flip", "cycle-flip"}

\* The last two calls were both flip()
JustFlippedTwice == hSeq \in {"flip-flip", "cycle-flip"}

\* C3: flip() emits only what changed since the last emitted frame; a line
\* whose cells all equal the last emitted frame is not part of the result.
C3_OnlyChangedLinesEmitted ==
  JustFlipped => hRowsEmitted \subseteq hRowsChanged

\* C7: flip() called twice with no draw or clear in between, after a
\* clear + draw + flip cycle, returns the empty result the second time, and
\* the second call changes no buffer.
C7_SecondFlipIsNoOp ==
  /\ [](JustFlippedTwice => hOutput = <<>> /\ hRowsEmitted = {})
  /\ [][(JustFlipped /\ JustFlippedTwice') =>
          UNCHANGED <<frontBuffer, backBuffer, previousBuffer>>]_vars

\* clear, a draw that left a glyph, flip, flip
C7_Witness ==
  /\ hSeq = "cycle-flip"
  /\ backBuffer # CreateBuffer(width, height)
  /\ previousBuffer = backBuffer
  /\ hOutput = <<>>

\* C26: flip() returns the empty result exactly when every cell (character
\* and colour) of the back buffer equals the shadow buffer; otherwise it copies
\* the back buffer into the shadow and front buffers and returns the rows of
\* the frame from top to bottom; flip() never changes the back buffer.
C26_FlipEmptyIffNothingDiffers ==
  [][JustFlipped' =>
       /\ (hOutput' = <<>>) <=> (backBuffer = previousBuffer)
       /\ backBuffer # previousBuffer =>
            /\ previousBuffer' = backBuffer
            /\ frontBuffer' = backBuffer
            /\ hOutput' = JoinLines(FrameText(backBuffer))
       /\ backBuffer' = backBuffer]_vars

\* The cell of buffer b at column c, row r
CellOf(b, c, r) == <<b.chars[r][c], b.colors[r][c]>>

\* The cell the point (x, y), in halves of a cell, lies in
InCell(x, y, c, r) ==
  /\ 2 * c <= x /\ x < 2 * c + 2
  /\ 2 * r <= y /\ y < 2 * r + 2

\* C27: drawChar(x, y, ch, color) writes exactly the back-buffer cell
\* (floor(x), floor(y)) when that cell is on the grid and leaves every other
\* cell as it was; off the grid the call changes nothing; drawing never
\* changes the front or the shadow buffer.
C27_DrawCharWritesOneCell ==
  [][hDraw'.op = "drawChar" =>
       /\ UNCHANGED <<frontBuffer, previousBuffer, width, height>>
       /\ \A r \in Rows, c \in Cols :
            CellOf(backBuffer', c, r) =
              IF InCell(hDraw'.x, hDraw'.y, c, r)
              THEN <<hDraw'.char, hDraw'.color>>
              ELSE CellOf(backBuffer, c, r)
       /\ (\A r \in Rows, c \in Cols : ~InCell(hDraw'.x, hDraw'.y, c, r))
            => backBuffer' = backBuffer]_vars

\* drawChar(1.5, 0, 'a', 'red') on a grid two cells wide that has shown a
\* frame: cell (1, 0) holds the red letter, cell (0, 0) what it held before
\* (an empty string drawn earlier)
C27_Witness ==
  /\ hDraw = [op |-> "drawChar", x |-> 3, y |-> 0, char |-> "a",
              color |-> "red"]
  /\ width = 2
  /\ CellOf(backBuffer, 1, 0) = <<"a", "red">>
  /\ CellOf(backBuffer, 0, 0) = <<"", "white">>
  /\ frontBuffer # backBuffer
  /\ frontBuffer # CreateBuffer(width, height)

\* C32: in every reachable Renderer state, after any sequence of clear,
\* drawChar, drawString, drawBox and flip calls, the front buffer and the
\* shadow (previous) buffer hold identical content.
C32_FrontEqualsShadow ==
  \A r \in Rows, c \in Cols :
    /\ frontBuffer.chars[r][c] = previousBuffer.chars[r][c]
    /\ frontBuffer.colors[r][c] = previousBuffer.colors[r][c]

\* A frame with a box glyph has been shown, and the back buffer has been
\* drawn on since
C32_Witness ==
  /\ \E r \in Rows, c \in Cols : frontBuffer.chars[r][c] = BoxGlyph.fill
  /\ \E r \in Rows, c \in Cols : previousBuffer.chars[r][c] = "a"
  /\ backBuffer # frontBuffer
  /\ hSeq = "other"

\* The cell (c, r) lies in the rectangle of the last drawBox call
InBox(c, r) ==
  /\ hDraw.x <= 2 * c /\ 2 * c < hDraw.x + 2 * hDraw.w
  /\ hDraw.y <= 2 * r /\ 2 * r < hDraw.y + 2 * hDraw.h

\* C37: drawBox(x, y, w, h, filled) changes only back-buffer cells inside the
\* rectangle x <= cx < x + w, y <= cy < y + h, for all w, h >= 0 and both
\* values of filled; a box with w = 0 or h = 0 changes no cell.
C37_DrawBoxStaysInRectangle ==
  [][hDraw'.op = "drawBox" =>
       /\ UNCHANGED <<frontBuffer, previousBuffer>>
       /\ \A r \in Rows, c \in Cols :
            CellOf(backBuffer', c, r) # CellOf(backBuffer, c, r) => InBox(c, r)'
       /\ (hDraw'.w = 0 \/ hDraw'.h = 0) => backBuffer' = backBuffer]_vars

\* =========================================================================
\* Claims about the GameEngine (checked under SpecEngine)
\* =========================================================================

\* The number of fixedUpdate notifications the last step emitted
FixedUpdates ==
  Cardinality({i \in 1..Len(hEmitted) : hEmitted[i] = "fixedUpdate"})

\* The last step ran the body of a wake-up
WokeUp == "render" \in Range(hEmitted)

\* The general part of C1: n = floor((a + d) / f) and what is left
StepsAreQuotient ==
  WokeUp =>
    /\ FixedUpdates = (hPreAcc + hDelta) \div FrameTime
    /\ accumulator = (hPreAcc + hDelta) - FixedUpdates * FrameTime

\* C1 as stated: a wake-up with accumulator a, clamped elapsed time d and frame
\* duration f emits n = floor((a+d)/f) fixedUpdate notifications and leaves
\* (a+d) - n*f; with f = 16.6667 ms, a = 0 and d = 50 ms exactly 3 fire and the
\* interpolation is about 0 (here: at most a thousandth).
C1_ThreeStepsIn50ms ==
  /\ StepsAreQuotient
  /\ (WokeUp /\ hPreAcc = 0 /\ hDelta = Ms(50)) =>
       /\ FixedUpdates = 3
       /\ accumulator * 1000 <= FrameTime

\* C1 as amended: the same n = floor((a+d)/f) and remainder; with
\* f = 16.6667 ms (1000/60 rounded, which is more than 50/3), a = 0 and
\* d = 50 ms exactly 2 fixedUpdate notifications fire and the interpolation is
\* just below 1 (at least 0.9999).
C1_TwoStepsIn50ms ==
  /\ StepsAreQuotient
  /\ (WokeUp /\ hPreAcc = 0 /\ hDelta = Ms(50)) =>
       /\ FixedUpdates = 2
       /\ accumulator < FrameTime
       /\ accumulator * 10000 >= 9999 * FrameTime

\* A wake-up 50 ms after the last one, starting from an empty accumulator
C1_Witness ==
  /\ hEngCall = "gameLoop"
  /\ WokeUp
  /\ hPreAcc = 0
  /\ hDelta = Ms(50)
  /\ FixedUpdates = 2

\* The fixedUpdate, update and render notifications of the last step, in order
WakeUpNotes ==
  SelectSeq(hEmitted, LAMBDA e : e \in {"fixedUpdate", "update", "render"})

\* C11: stop() takes effect at the tick boundary, never mid-tick: a wake-up
\* during which stop() is called (from a handler) still emits all of its
\* fixedUpdate, update and render notifications, and while the engine is
\* stopped no later wake-up emits anything.
C11_StopAtTickBoundary ==
  /\ []((WokeUp /\ "stop" \in Range(hEmitted)) =>
          WakeUpNotes =
            Repeat("fixedUpdate", (hPreAcc + hDelta) \div FrameTime)
              \o <<"update", "render">>)
  /\ [][(~running /\ hEngCall' = "gameLoop") =>
          (hEmitted' = <<>> /\ ~running')]_vars

\* A handler of the first of two fixedUpdate notifications called stop(): the
\* second one, update and render followed all the same
C11_Witness ==
  /\ hEngCall = "gameLoop"
  /\ hEmitted = <<"fixedUpdate", "stop", "fixedUpdate", "update", "render">>
  /\ ~running
  /\ pendingLoops = 1

\* C12: start() is idempotent while the engine is running: a second start()
\* emits no notification, does not reset the last timestamp, the accumulator
\* or the fps counter, and schedules no additional wake-up.
C12_StartIdempotentWhileRunning ==
  [][(running /\ hEngCall' = "start") =>
       /\ hEmitted' = <<>>
       /\ UNCHANGED <<running, lastTime, accumulator, currentFps, frameCount,
                      fpsUpdateTime, pendingLoops>>]_vars

\* start() on a running engine whose clock state is not the initial one
C12_Witness ==
  /\ hEngCall = "start"
  /\ hEmitted = <<>>
  /\ running
  /\ accumulator > 0
  /\ frameCount > 0
  /\ lastTime < now
  /\ pendingLoops = 1

C14_SpiralOfDeathClamp ==
  /\ WokeUp =>
       /\ hDelta = Min(hRaw, Ms(100))
       /\ FixedUpdates <= Ms(100) \div FrameTime + 1
  /\ hFixedTotal * FrameTime + accumulator = hClampedTotal

\* A wake-up after a stall of 600 ms that made the most steps a wake-up can
C14_Witness ==
  /\ WokeUp
  /\ hRaw = Ms(600)
  /\ hDelta = Ms(100)
  /\ FixedUpdates = Ms(100) \div FrameTime + 1

\* The notifications of the last step without 'stop' and a leading 'start'
OwnNotes ==
  LET e == SelectSeq(hEmitted, LAMBDA x : x # "stop")
  IN IF hEngCall = "start" /\ e # <<>> THEN Tail(e) ELSE e

\* C15: within one wake-up: zero or more fixedUpdate, then exactly one update,
\* then exactly one render, then at most one fpsUpdate; `start` precedes every
\* notification of the first wake-up.
C15_NotificationOrder ==
  WokeUp =>
    /\ hEngCall = "start" => hEmitted[1] = "start"
    /\ \/ OwnNotes = Repeat("fixedUpdate", FixedUpdates) \o <<"update", "render">>
       \/ OwnNotes = Repeat("fixedUpdate", FixedUpdates)
                       \o <<"update", "render", "fpsUpdate">>

\* A wake-up with fixed steps and an fpsUpdate
C15_Witness ==
  /\ WokeUp
  /\ FixedUpdates >= 2
  /\ hEmitted[Len(hEmitted)] = "fpsUpdate"

\* C28: notifications are strictly sequential: all handlers of one
\* notification have returned when the next notification is emitted, and no
\* wake-up begins while another is in progress (a step is one call from the
\* host or one scheduled callback: two wake-ups within one step are nested),
\* for every interleaving of start(), stop() and scheduled wake-ups.
C28_NotificationsStrictlySequential ==
  [][/\ \A i \in 1..Len(hDepth') : hDepth'[i] = 0
     /\ hWakeUps' <= hWakeUps + 1]_vars

\* The number of fpsUpdate notifications the last step emitted
FpsUpdates ==
  Cardinality({i \in 1..Len(hEmitted) : hEmitted[i] = "fpsUpdate"})

\* C29: fpsUpdate(count) is emitted at the end of a wake-up exactly when at
\* least 1000 ms of wall-clock time have passed since the previous fpsUpdate
\* (or since start() when there was none), at most once per wake-up, and count
\* is the number of wake-ups completed since the previous fpsUpdate (or since
\* start()).
C29_FpsUpdateOncePerSecond ==
  [][WokeUp' =>
       LET base == IF Started' THEN now ELSE hFpsBase
           mark == IF Started' THEN hWakeUps ELSE hFpsMark
       IN /\ FpsUpdates' <= 1
          /\ (FpsUpdates' = 1) <=> (now - base >= Ms(1000))
          /\ FpsUpdates' = 1 =>
               /\ LET notes == SelectSeq(hEmitted', LAMBDA e : e # "stop")
                  IN notes[Len(notes)] = "fpsUpdate"
               /\ currentFps' = hWakeUps' - mark]_vars

\* How often the step emits the notification `name`
Emits(name) ==
  Cardinality({i \in 1..Len(hEmitted') : hEmitted'[i] = name})

\* C30: a subscriber failure is not recovered: when a handler of fixedUpdate,
\* update or render throws during a wake-up, the remaining notifications of
\* that wake-up are not emitted and the wake-up schedules no further wake-up,
\* so that no render notification is emitted afterwards (as long as start()
\* does not take effect again).
C30_HandlerFailureHaltsTheLoop ==
  /\ [][hEngCall' = "throw" =>
          /\ hEmitted'[Len(hEmitted')] = hThrown'
          /\ hThrown' = "fixedUpdate" => Emits("fixedUpdate") = 1
          /\ Emits("update") = IF hThrown' = "fixedUpdate" THEN 0 ELSE 1
          /\ Emits("render") = IF hThrown' = "render" THEN 1 ELSE 0
          /\ Emits("fpsUpdate") = 0
          /\ pendingLoops' <= pendingLoops]_vars
  /\ [][(hThrown # "none" /\ "start" \notin Range(hEmitted')) =>
          "render" \notin Range(hEmitted')]_vars

\* C34: at most one wake-up of the engine is pending at any time, for every
\* sequence of start() and stop() calls, stop() followed by start() before the
\* scheduled wake-up has run included.
C34_AtMostOnePendingWakeUp == pendingLoops <= 1

\* The start and stop notifications in notes alternate, the one before them
\* being last
RECURSIVE Alternates(_, _)
Alternates(last, notes) ==
  IF notes = <<>> THEN TRUE
  ELSE IF Head(notes) \notin {"start", "stop"}
  THEN Alternates(last, Tail(notes))
  ELSE Head(notes) # last /\ Alternates(Head(notes), Tail(notes))

\* C35: the start and stop notifications strictly alternate, beginning with
\* start: stop() called while the engine is STOPPED emits no stop
\* notification, and start() emits nothing while RUNNING.
C35_StartStopAlternate ==
  [][/\ Alternates(IF running THEN "start" ELSE "stop", hEmitted')
     /\ (hEngCall' = "stop" /\ ~running) => hEmitted' = <<>>
     /\ (hEngCall' = "start" /\ running) => hEmitted' = <<>>]_vars

\* =========================================================================
\* Claims about the InputManager (checked under SpecInput)
\* =========================================================================

\* isKeyPressed(key)
IsKeyPressed(key) == key \in keys

\* C2: after mapKey('w','p1_up') and a raw 'w', isKeyPressed('p1_up') is true
\* at once and stays true, with exactly one keydown and no keyup, for as long
\* as every further raw 'w' arrives within the hold window (100 ms) of the one
\* before it: the window is re-armed on every repeat.
C2_HeldWhileRepeatsArrive ==
  (/\ hLastSignal["p1_up"] >= 0
   /\ hUnbroken["p1_up"]
   /\ inputNow - hLastSignal["p1_up"] < HoldWindow
   /\ ~exited) =>
    /\ IsKeyPressed("p1_up")
    /\ hDown["p1_up"] = 1
    /\ hUp["p1_up"] = 0

\* The raw signal of the last step reached the 'data' listener
Delivered == hInCall = "data" /\ isTTY /\ flowing

\* The names of the events the last step emitted
EmittedNames == {hInEvents[i].name : i \in 1..Len(hInEvents)}

\* C16: once the hold window (100 ms) has elapsed after the last raw signal of
\* a key and its release timers have run, the key is IDLE: isKeyPressed is
\* false and every keydown of the key has had exactly one keyup; a release
\* fires exactly one keyup.
C16_ReleasedBySilence ==
  /\ [](\A k \in LogicalKeys :
          (/\ hLastSignal[k] >= 0
           /\ inputNow - hLastSignal[k] >= HoldWindow
           /\ \A i \in 1..Len(timers) : timers[i].key # k
           /\ ~exited) =>
            /\ ~IsKeyPressed(k)
            /\ hDown[k] >= 1
            /\ hUp[k] = hDown[k])
  /\ [][\A k \in LogicalKeys :
          (IsKeyPressed(k) /\ ~IsKeyPressed(k)') =>
            /\ hUp'[k] = hUp[k] + 1
            /\ hInEvents' = <<Event("keyup", k)>>]_vars

\* 100 ms after the only signal of 'w', mapped to p1_up, the key is released
C16_Witness ==
  /\ hLastSignal["p1_up"] = InputStep
  /\ inputNow = InputStep + HoldWindow
  /\ hInCall = "timer"
  /\ hInEvents = <<Event("keyup", "p1_up")>>
  /\ ~IsKeyPressed("p1_up")
  /\ hDown["p1_up"] = 1
  /\ hUp["p1_up"] = 1
  /\ timers = <<>>

\* C17: after mapKey(rawName, logicalName) a raw rawName signal makes the
\* InputManager emit an event named logicalName, so that a handler subscribed
\* with on(logicalName, h) is invoked (mapKey('q','quit') and on('quit', h)
\* make a raw 'q' invoke h).
C17_MappedActionEventEmitted ==
  (/\ Delivered
   /\ hRawIn # CtrlC
   /\ hRawIn \in DOMAIN keyMappings) =>
    /\ keyMappings[hRawIn] \in EmittedNames
    /\ subscribed =>
         \E i \in 1..Len(hHandled) : hHandled[i].name = keyMappings[hRawIn]

\* C18: the interrupt byte fires `quit` and terminates whatever mapping is
\* registered for it; no keydown or keyup is fired for it and the held set is
\* unchanged.
C18_InterruptBypassesMapping ==
  [][(hInCall' = "data" /\ hRawIn' = CtrlC /\ isTTY /\ flowing) =>
       /\ hInEvents' = <<Event("quit", "")>>
       /\ hQuit' = hQuit + 1
       /\ exited'
       /\ UNCHANGED <<keys, timers, hDown, hUp>>]_vars

\* Ctrl+C arrived while it was mapped to p1_up and another key was held
C18_Witness ==
  /\ exited
  /\ hRawIn = CtrlC
  /\ CtrlC \in DOMAIN keyMappings
  /\ hInEvents = <<Event("quit", "")>>
  /\ keys = {"w"}
  /\ hDown["p1_up"] = 0

\* C19: without a TTY the InputManager is constructed without raw mode; from
\* then on isKeyPressed(k) is false for every k, no keydown, keyup or quit is
\* ever emitted, and destroy() succeeds.
C19_NoTtyNoInput ==
  ~isTTY =>
    /\ ~rawMode
    /\ \A k \in LogicalKeys : ~IsKeyPressed(k) /\ hDown[k] = 0 /\ hUp[k] = 0
    /\ keys = {}
    /\ hQuit = 0
    /\ hInEvents = <<>>
    /\ timers = <<>>
    /\ ~exited

\* Without a TTY: bytes arrived on stdin, time passed, destroy() was called
C19_Witness ==
  /\ ~isTTY
  /\ hSignals = MaxSignals
  /\ inputNow > HoldWindow
  /\ hDestroyCalled
  /\ ~subscribed
  /\ DOMAIN keyMappings # {}

\* C20: destroy() releases raw mode and clears all subscriptions: after
\* destroy() no handler subscribed through on() is invoked, neither for a
\* later raw signal nor for a hold-window timer that was pending.
C20_DestroyClearsSubscriptions ==
  hDestroyCalled =>
    /\ ~rawMode
    /\ ~subscribed
    /\ hHandled = <<>>

\* After destroy() a timer that was pending released its key and emitted keyup
C20_Witness ==
  /\ hDestroyCalled
  /\ hInCall = "timer"
  /\ hInEvents # <<>>
  /\ hHandled = <<>>
  /\ hSignals = MaxSignals


\* C36: for every logical key, keydown and keyup strictly alternate starting
\* with keydown, and isKeyPressed(key) is true exactly in the states after a
\* keydown and before the matching keyup, for every interleaving of raw
\* signals (two raw keys bound to one logical name included) and expiries of
\* the hold-window timers.
C36_KeydownKeyupAlternate ==
  /\ [](\A k \in LogicalKeys :
          /\ hDown[k] - hUp[k] \in {0, 1}
          /\ IsKeyPressed(k) <=> (hDown[k] = hUp[k] + 1))
  /\ [][\A i \in 1..Len(hInEvents') :
          /\ hInEvents'[i].name = "keydown" =>
               /\ ~IsKeyPressed(hInEvents'[i].arg)
               /\ hDown[hInEvents'[i].arg] = hUp[hInEvents'[i].arg]
               /\ Len(hInEvents') = 1
          /\ hInEvents'[i].name = "keyup" =>
               /\ IsKeyPressed(hInEvents'[i].arg)
               /\ hDown[hInEvents'[i].arg] = hUp[hInEvents'[i].arg] + 1
               /\ Len(hInEvents') = 1]_vars

\* Both raw keys are bound to p1_up; the key was pressed, released by its
\* timer and pressed again through the other raw key
C36_Witness ==
  /\ "w" \in DOMAIN keyMappings /\ "x" \in DOMAIN keyMappings
  /\ keyMappings["w"] = "p1_up" /\ keyMappings["x"] = "p1_up"
  /\ hDown["p1_up"] = 2 /\ hUp["p1_up"] = 1
  /\ IsKeyPressed("p1_up") /\ hRawIn = "x"


\* =========================================================================
\* Claims about the EditorBuffer (checked under SpecBuffer)
\* =========================================================================

\* C39: undo/redo round trip: after an edit (insertText or deleteText) has
\* changed the content from A to B, undo() returns true and restores the
\* content to A, a following redo() returns true and restores B, and any new
\* edit empties the redo history.
C39_UndoRedoRoundTrip ==
  /\ [][(hBufCall'.op = "undo" /\ hTrip = "edited") =>
          (hBufCall'.result /\ lines' = hA)]_vars
  /\ [][(hBufCall'.op = "redo" /\ hTrip = "undone") =>
          (hBufCall'.result /\ lines' = hB)]_vars
  /\ [][hBufCall'.op \in {"insertText", "deleteText"} =>
          redoStack' = <<>>]_vars


\* =========================================================================
\* Claims about the KeybindManager (checked under SpecMatch)
\* =========================================================================

\* C33: matchesKeybind(event, keybind) is true exactly when event.name equals
\* keybind.key and, for each of ctrl, alt, shift and meta, the modifier is
\* listed in keybind.modifiers if and only if the flag of the event is set; an
\* event carrying a different combination of modifiers (alt instead of ctrl)
\* does not match.
C33_MatchesKeybindExact ==
  hMatches.called =>
    /\ hMatches.result <=>
         /\ kbEvent.name = kbKeybind.key
         /\ \A m \in Modifiers :
              ("modifiers" \in DOMAIN kbKeybind
                 /\ m \in Range(kbKeybind.modifiers))
                <=> (m \in DOMAIN kbEvent /\ kbEvent[m] = TRUE)
    /\ (/\ "modifiers" \in DOMAIN kbKeybind
        /\ kbKeybind.modifiers = <<"ctrl">>
        /\ "alt" \in DOMAIN kbEvent /\ kbEvent.alt
        /\ ~("ctrl" \in DOMAIN kbEvent /\ kbEvent.ctrl)) => ~hMatches.result

\* Ctrl+Shift+S matched the keybind of s with ctrl and shift, the event
\* carrying alt as false and no meta flag
C33_Witness ==
  /\ hMatches.called /\ hMatches.result
  /\ kbKeybind = [key |-> "s", modifiers |-> <<"ctrl", "shift">>]
  /\ kbEvent = [name |-> "s", ctrl |-> TRUE, shift |-> TRUE, alt |-> FALSE]


\* ---- handleKeyEvent (checked under SpecManager) ----

\* The last call was handleKeyEvent
KeyEventHandled == hKbCall.op = "handleKeyEvent"

\* The keybind a candidate <<context, index>> stands for, and its handler
KeybindAt(a) == GetKeybindsForContext(a[1])[a[2]]
HandlerKey(a) == <<a[1], KeybindAt(a).action>>
HasHandler(a) == HandlerKey(a) \in DOMAIN handlers

\* The enabled keybinds of the active contexts that match the event
Candidates ==
  UNION {{<<activeContexts[i], k>> :
            k \in {j \in 1..Len(GetKeybindsForContext(activeContexts[i])) :
                     LET keybind == GetKeybindsForContext(activeContexts[i])[j]
                     IN /\ ~("enabled" \in DOMAIN keybind /\ ~keybind.enabled)
                        /\ MatchesKeybind(hKbCall.event, keybind)}} :
           i \in 1..Len(activeContexts)}

\* Candidate a is tried before candidate b: its context has the higher
\* priority, or the same priority and was activated earlier, or it is the
\* same context and a comes first in the context's list
ActivatedAt(id) == CHOOSE i \in 1..Len(activeContexts) : activeContexts[i] = id
TriedBefore(a, b) ==
  \/ contexts[a[1]].priority > contexts[b[1]].priority
  \/ /\ contexts[a[1]].priority = contexts[b[1]].priority
     /\ ActivatedAt(a[1]) < ActivatedAt(b[1])
  \/ a[1] = b[1] /\ a[2] < b[2]

\* The handler of candidate a returns something other than false
HandlerAccepts(a) == HasHandler(a) /\ handlers[HandlerKey(a)] # "false"

\* Candidate a ends the search: its handler accepts, or it has preventDefault
Consumes(a) ==
  \/ HandlerAccepts(a)
  \/ "preventDefault" \in DOMAIN KeybindAt(a) /\ KeybindAt(a).preventDefault

\* The handlers were invoked from the highest priority down
InvokedInPriorityOrder ==
  \A i, j \in 1..Len(hInvoked) :
    i < j => /\ TriedBefore(hInvoked[i], hInvoked[j])
             /\ contexts[hInvoked[i][1]].priority
                  >= contexts[hInvoked[j][1]].priority

\* C38, as stated: handleKeyEvent tries the active contexts in descending
\* priority order; the first matching enabled keybind whose registered handler
\* returns anything other than false consumes the event (result true) and no
\* handler of a lower-priority context is invoked; a handler returning false
\* lets the search continue; when nothing consumes the event the result is
\* false, and when no config is loaded no handler is invoked.
C38_HandlerResultDecides ==
  KeyEventHandled =>
    /\ ~config.loaded => hInvoked = <<>>
    /\ InvokedInPriorityOrder
    /\ hKbCall.result <=> \E a \in Candidates : HandlerAccepts(a)
    /\ Range(hInvoked) =
         {a \in Candidates :
            /\ HasHandler(a)
            /\ \A b \in Candidates : TriedBefore(b, a) => ~HandlerAccepts(b)}

\* C38, amended: a matching enabled keybind also consumes the event when it
\* has preventDefault set, whether or not a handler is registered for it and
\* whatever that handler returns; a handler returning false lets the search
\* continue only when its keybind has no preventDefault.
C38_HandlerOrPreventDefaultDecides ==
  KeyEventHandled =>
    /\ ~config.loaded => (hInvoked = <<>> /\ ~hKbCall.result)
    /\ InvokedInPriorityOrder
    /\ hKbCall.result <=> \E a \in Candidates : Consumes(a)
    /\ Range(hInvoked) =
         {a \in Candidates :
            /\ HasHandler(a)
            /\ \A b \in Candidates : TriedBefore(b, a) => ~Consumes(b)}

\* The handler of the editor context (priority 200) returned false, the search
\* went on and the handler of the global context consumed the event
C38_Witness ==
  /\ KeyEventHandled /\ hKbCall.result
  /\ hInvoked = << <<"editor", 1>>, <<"global", 1>> >>
  /\ contexts["editor"].priority = 200
  /\ handlers[<<"editor", "save">>] = "false"
  /\ handlers[<<"global", "save">>] = "undefined"


\* =========================================================================
\* Claims about the RenderSystem (checked under SpecRender)
\* =========================================================================

\* The last step was RenderSystem.update
Updated == hUpdate.op = "update"

\* The calls update made between clear and flip
DrawCalls == SubSeq(hUpdate.calls, 2, Len(hUpdate.calls) - 1)

\* The entities update has to draw
Drawable ==
  {e \in Range(entities) :
     HasComponent(e, "Position") /\ HasComponent(e, "Sprite")}

\* The draw calls due for a drawable entity: one drawChar per cell of its
\* rectangle when it has Dimensions, else one drawString
CallsDue(e) ==
  LET p == components["Position"][e]
      s == components["Sprite"][e]
  IN IF HasComponent(e, "Dimensions")
     THEN LET d == components["Dimensions"][e]
          IN {[call |-> "drawChar", entity |-> e,
               x |-> Halves(p.x + dx * Cell), y |-> Halves(p.y + dy * Cell),
               chars |-> s.chars, color |-> s.color] :
                dx \in {n \in 0..MaxRenderCells : n * Cell < d.width},
                dy \in {n \in 0..MaxRenderCells : n * Cell < d.height}}
     ELSE {[call |-> "drawString", entity |-> e,
            x |-> Halves(p.x), y |-> Halves(p.y),
            chars |-> s.chars, color |-> s.color]}

\* Draw call c writes cell (col, row), and the character it writes there
Covers(c, col, row) ==
  /\ Floor(c.y) = row
  /\ IF c.call = "drawChar" THEN Floor(c.x) = col
     ELSE col - Floor(c.x) \in 0..(Len(CharsOf(c.chars)) - 1)
CharAt(c, col) ==
  IF c.call = "drawChar" THEN c.chars
  ELSE CharsOf(c.chars)[col - Floor(c.x) + 1]

\* C31: RenderSystem.update clears the renderer, then for every entity with
\* Position and Sprite draws the sprite glyph into every cell of the width x
\* height rectangle at its position when it has a Dimensions component and
\* otherwise draws the sprite as a string starting at its position, then calls
\* flip() once and hands the result to the output sink only when it is
\* non-empty; entities lacking Position or Sprite are not drawn and the World
\* is left unchanged.
C31_UpdateDrawsEverySprite ==
  /\ [](Updated =>
          /\ hUpdate.calls[1].call = "clear"
          /\ hUpdate.calls[Len(hUpdate.calls)].call = "flip"
          /\ \A i \in 1..Len(DrawCalls) :
               DrawCalls[i].call \in {"drawChar", "drawString"}
          /\ Range(DrawCalls) = UNION {CallsDue(e) : e \in Drawable}
          /\ Len(DrawCalls) = Cardinality(Range(DrawCalls))
          /\ \A i, j \in 1..Len(DrawCalls) :
               i < j => \E m, n \in 1..Len(entities) :
                          /\ m <= n
                          /\ entities[m] = DrawCalls[i].entity
                          /\ entities[n] = DrawCalls[j].entity
          /\ frontBuffer = backBuffer /\ previousBuffer = backBuffer
          /\ \A row \in Rows, col \in Cols :
               IF \E i \in 1..Len(DrawCalls) : Covers(DrawCalls[i], col, row)
               THEN \E i \in 1..Len(DrawCalls) :
                      /\ Covers(DrawCalls[i], col, row)
                      /\ backBuffer.chars[row][col] = CharAt(DrawCalls[i], col)
                      /\ backBuffer.colors[row][col] = DrawCalls[i].color
               ELSE /\ backBuffer.chars[row][col] = " "
                    /\ backBuffer.colors[row][col] = "white"
          /\ hUpdate.logged = IF hOutput # <<>> THEN <<hOutput>> ELSE <<>>)
  /\ [][hUpdate'.op = "update" => UNCHANGED worldVars]_vars

\* An update drew one entity as a rectangle and another as a string and
\* logged the frame
C31_Witness ==
  /\ Updated
  /\ \E i \in 1..Len(DrawCalls) : DrawCalls[i].call = "drawChar"
  /\ \E i \in 1..Len(DrawCalls) : DrawCalls[i].call = "drawString"
  /\ hUpdate.logged # <<>>

====
